---- MODULE Spec2Model ----
(***************************************************************************)
(* Model of the distributed state engine of dm4ml/motion: the three crates *)
(* of the repository that implement the state accessor                     *)
(*   motionstate/src/lib.rs  (StateAccessor, byte cache, custom codec)     *)
(*   src/lib.rs              (StateAccessor of crate "motion", object      *)
(*                            cache)                                        *)
(*   rustystate/src/lib.rs   (State, no lock, no version)                  *)
(* against one namespace of a shared Redis store and its RedLock lock.     *)
(***************************************************************************)
EXTENDS Integers, Sequences, FiniteSets, TLC

\* ------------------------------------------------------------------ bounds
\* Highest in-process version at which a write call may still begin.
MaxVersion == 2
\* Number of successful commits after which no further write call begins.
MaxCommits == 2
\* Longest dictionary handed to bulk_set.
MaxItems == 2
MaxNameLen == 2
\* Longest list, and largest number of map entries, handed to the codec.
MaxListLen == 2

\* --------------------------------------------------------- program constants
max_lock_attempts == 3
MARKER_LIST == 1
MARKER_DICT == 2

\* ------------------------------------------------------------ value model
\* A Python value: kind in int, float, str, list, dict, opaque.
\*   int    : n is the integer; an integer that does not fit TLC's 32 bits
\*            has n = 0 and its decimal text in s
\*   float  : s is the bytes of str(value)
\*   str    : s is the UTF-8 bytes of the string
\*   list   : items are the elements
\*   dict   : items are key, value, key, value, ... in insertion order
\*   opaque : n = 1 when cloudpickle can dump it, s is then the pickle
PyInt(n) == [kind |-> "int", n |-> n, s |-> <<>>, items |-> <<>>]
PyLong(text) == [kind |-> "int", n |-> 0, s |-> text, items |-> <<>>]
PyFloat(text) == [kind |-> "float", n |-> 0, s |-> text, items |-> <<>>]
PyString(bytes) == [kind |-> "str", n |-> 0, s |-> bytes, items |-> <<>>]
PyList(elems) == [kind |-> "list", n |-> 0, s |-> <<>>, items |-> elems]
PyDict(kvs) == [kind |-> "dict", n |-> 0, s |-> <<>>, items |-> kvs]
PyOpaque(picklable, pickle) ==
    [kind |-> "opaque", n |-> IF picklable THEN 1 ELSE 0, s |-> pickle, items |-> <<>>]

\* TempValue { value, ttl }
TempValue(value, ttl) == [kind |-> "temp", n |-> ttl, s |-> <<>>, items |-> <<value>>]
PyNone == [kind |-> "none", n |-> 0, s |-> <<>>, items |-> <<>>]

\* Result of an encoding: ok = FALSE is a Python exception (PyErr).
Ok(bytes) == [ok |-> TRUE, bytes |-> bytes]
Err == [ok |-> FALSE, bytes |-> <<>>]

\* Decimal text of a natural number, as ASCII bytes.
RECURSIVE Digits(_)
Digits(n) == IF n < 10 THEN <<48 + n>> ELSE Digits(n \div 10) \o <<48 + (n % 10)>>

\* str() of a Python int.
IntText(n) == IF n < 0 THEN <<45>> \o Digits(0 - n) ELSE Digits(n)

\* (len as u64).to_le_bytes()
RECURSIVE LeBytes(_, _)
LeBytes(n, width) ==
    IF width = 0 THEN <<>> ELSE <<n % 256>> \o LeBytes(n \div 256, width - 1)

\* The eight bytes, most significant first.
to_be_bytes(n) == [i \in 1..8 |-> LeBytes(n, 8)[9 - i]]

\* (TLC's integers are 32 bits wide: every length of the model fits.)
to_le_bytes(n) == LeBytes(n, 8)

\* cloudpickle.dumps: raises for what it cannot pickle (also a TempValue, a
\* pyo3 class without pickle support).
cloudpickle_serialize(value) ==
    IF value.kind = "opaque" /\ value.n = 1 THEN Ok(value.s) ELSE Err

RECURSIVE serialize_value(_)
RECURSIVE serialize_frames(_)
\* The (length, payload) frames of a sequence of values; fails when one fails.
serialize_frames(values) ==
    IF values = <<>> THEN Ok(<<>>)
    ELSE LET head == serialize_value(Head(values))
             rest == serialize_frames(Tail(values))
         IN IF head.ok /\ rest.ok
            THEN Ok(to_le_bytes(Len(head.bytes)) \o head.bytes \o rest.bytes)
            ELSE Err

serialize_dict(value) == serialize_frames(value.items)

serialize_value(value) ==
    IF value.kind = "int"
    THEN Ok(IF value.s # <<>> THEN value.s ELSE IntText(value.n))
    ELSE IF value.kind \in {"float", "str"} THEN Ok(value.s)
    ELSE IF value.kind = "dict"
         THEN LET body == serialize_dict(value)
              IN IF body.ok THEN Ok(<<MARKER_DICT>> \o body.bytes) ELSE Err
    ELSE IF value.kind = "list"
         THEN LET body == serialize_frames(value.items)
              IN IF body.ok THEN Ok(<<MARKER_LIST>> \o body.bytes) ELSE Err
    ELSE cloudpickle_serialize(value)

\* ----------------------------------------------------------- decoding
\* from_utf8: the model's text is ASCII; a byte from 128 on stands for a
\* sequence that is not valid UTF-8 (a pickle starts with the byte 0x80).
is_utf8(bytes) == \A i \in 1..Len(bytes) : bytes[i] < 128

IsDigit(b) == b >= 48 /\ b <= 57
AllDigits(bytes) == bytes # <<>> /\ \A i \in 1..Len(bytes) : IsDigit(bytes[i])

\* The value of a string of digits.
RECURSIVE DigitsValue(_)
DigitsValue(bytes) ==
    IF bytes = <<>> THEN 0
    ELSE 10 * DigitsValue(SubSeq(bytes, 1, Len(bytes) - 1)) + (bytes[Len(bytes)] - 48)

\* A decoder without the integer parse.
parse_i64_never(bytes) == FALSE

\* Leading zeros of a digit string go.
RECURSIVE StripLeadingZeros(_)
StripLeadingZeros(bytes) ==
    IF Len(bytes) > 1 /\ bytes[1] = 48 THEN StripLeadingZeros(Tail(bytes)) ELSE bytes

\* The digits of 2^63 - 1, i64::MAX, and of 2^63, the magnitude of i64::MIN.
i64_MAX == <<57, 50, 50, 51, 51, 55, 50, 48, 51, 54, 56, 53, 52, 55, 55, 53, 56, 48, 55>>
i64_MIN == <<57, 50, 50, 51, 51, 55, 50, 48, 51, 54, 56, 53, 52, 55, 55, 53, 56, 48, 56>>

\* Two digit strings of one length, compared as numbers.
DigitsLeq(low, high) ==
    \/ low = high
    \/ \E i \in 1..Len(low) : low[i] < high[i] /\ \A j \in 1..(i - 1) : low[j] = high[j]

\* The number fits an i64: PosOverflow and NegOverflow of parse::<i64>.
fits_i64(negative, digits) ==
    LET body == StripLeadingZeros(digits)
        limit == IF negative THEN i64_MIN ELSE i64_MAX
    IN Len(body) < Len(limit) \/ (Len(body) = Len(limit) /\ DigitsLeq(body, limit))

\* decoded.parse::<i64>(): an optional sign, then digits only, of a number
\* from -2^63 to 2^63 - 1.
parse_i64_ok(bytes) ==
    /\ bytes # <<>>
    /\ IF bytes[1] \in {43, 45}
       THEN AllDigits(Tail(bytes)) /\ fits_i64(bytes[1] = 45, Tail(bytes))
       ELSE AllDigits(bytes) /\ fits_i64(FALSE, bytes)
parse_i64(bytes) ==
    IF bytes[1] = 45 THEN 0 - DigitsValue(Tail(bytes))
    ELSE IF bytes[1] = 43 THEN DigitsValue(Tail(bytes))
    ELSE DigitsValue(bytes)

\* int_value.into_py(py): the Python int of a text that parse::<i64> takes.
parsed_int(bytes) ==
    LET negative == bytes[1] = 45
        body == StripLeadingZeros(IF bytes[1] \in {43, 45} THEN Tail(bytes) ELSE bytes)
    IN IF Len(body) <= 9 THEN PyInt(parse_i64(bytes))
       ELSE PyLong((IF negative THEN <<45>> ELSE <<>>) \o body)

\* decoded.parse::<f64>(), for the texts of the model: an optional sign, then
\* digits with at most one point among them (at least one digit), or inf, nan.
Unsigned(bytes) == IF bytes # <<>> /\ bytes[1] \in {43, 45} THEN Tail(bytes) ELSE bytes
PointAt(bytes) == {i \in 1..Len(bytes) : bytes[i] = 46}
parse_f64_ok(bytes) ==
    LET body == Unsigned(bytes)
    IN \/ body \in {<<105, 110, 102>>, <<110, 97, 110>>}
       \/ /\ Cardinality(PointAt(body)) = 1
          /\ Len(body) >= 2
          /\ \A i \in 1..Len(body) : IsDigit(body[i]) \/ body[i] = 46
       \/ AllDigits(body)

\* Trailing zeros of the fraction go.
RECURSIVE StripTrailingZeros(_)
StripTrailingZeros(bytes) ==
    IF Len(bytes) > 1 /\ bytes[Len(bytes)] = 48
    THEN StripTrailingZeros(SubSeq(bytes, 1, Len(bytes) - 1)) ELSE bytes

\* str() of the float a text parses to.  (A text of digits alone names its
\* float by these digits and ".0": the float is the double nearest to the
\* number, and its rounding to 53 bits is not computed.)
parse_f64(bytes) ==
    LET body == Unsigned(bytes)
        sign == IF bytes[1] = 45 THEN <<45>> ELSE <<>>
    IN IF body \in {<<105, 110, 102>>, <<110, 97, 110>>}
       THEN (IF body = <<110, 97, 110>> THEN <<>> ELSE sign) \o body
       ELSE IF PointAt(body) = {}
       THEN sign \o StripLeadingZeros(body) \o <<46, 48>>
       ELSE LET p == CHOOSE i \in PointAt(body) : TRUE
                whole == SubSeq(body, 1, p - 1)
                frac == SubSeq(body, p + 1, Len(body))
            IN sign \o StripLeadingZeros(IF whole = <<>> THEN <<48>> ELSE whole)
                    \o <<46>>
                    \o StripTrailingZeros(IF frac = <<>> THEN <<48>> ELSE frac)

\* Result of a decoding: a value, a Python exception (PyErr), or a panic of
\* the Rust code.
Decoded(value) == [ok |-> TRUE, panic |-> FALSE, value |-> value]
DecodeErr == [ok |-> FALSE, panic |-> FALSE, value |-> PyNone]
DecodePanic == [ok |-> FALSE, panic |-> TRUE, value |-> PyNone]

\* cloudpickle.loads: the object of a pickle, an exception for other bytes.
cloudpickle_deserialize(bytes) ==
    IF bytes # <<>> /\ bytes[1] = 128
    THEN Decoded(PyOpaque(TRUE, bytes))
    ELSE DecodeErr

\* u64::from_le_bytes(..) as usize, where it can be a length inside the
\* input: with a byte from the fourth on set, it is beyond every input.
BeyondInput == 16777216
from_le_bytes(bytes) ==
    IF \E i \in 4..8 : bytes[i] # 0 THEN BeyondInput
    ELSE bytes[1] + 256 * bytes[2] + 65536 * bytes[3]

\* *cursor + len reaches 2^64 (cursor below 256, as in every input here): the
\* length is 2^64 - 256 + bytes[1] and the sum does not fit a usize.
overflows(bytes, cursor) ==
    /\ \A i \in 2..8 : bytes[i] = 255
    /\ bytes[1] + cursor >= 256

\* extract_next_slice(value, &mut cursor): the slice and the cursor after it,
\* or None with the cursor where the code leaves it.  Where *cursor + len
\* overflows, a build with overflow checks panics at the addition; one
\* without wraps to a sum below the cursor, accepts it, and panics at
\* &value[*cursor..*cursor + len], whose end is before its start.
extract_next_slice(value, cursor) ==
    IF cursor + 8 <= Len(value)
    THEN LET prefix == SubSeq(value, cursor + 1, cursor + 8)
             len == from_le_bytes(prefix)
         IN IF overflows(prefix, cursor + 8)
            THEN [some |-> FALSE, panics |-> TRUE, slice |-> <<>>, cursor |-> cursor + 8]
            ELSE IF cursor + 8 + len <= Len(value)
            THEN [some |-> TRUE, panics |-> FALSE,
                  slice |-> SubSeq(value, cursor + 9, cursor + 8 + len),
                  cursor |-> cursor + 8 + len]
            ELSE [some |-> FALSE, panics |-> FALSE, slice |-> <<>>, cursor |-> cursor + 8]
    ELSE [some |-> FALSE, panics |-> FALSE, slice |-> <<>>, cursor |-> cursor]

\* dict.set_item(key, val): a key already there keeps its place and takes the
\* new value; a list or a dict is no key (TypeError: unhashable).
hashable(key) == key.kind \notin {"list", "dict"}
set_item(kvs, key, val) ==
    IF \E i \in 1..Len(kvs) : i % 2 = 1 /\ kvs[i] = key
    THEN [i \in 1..Len(kvs) |->
             IF i % 2 = 0 /\ kvs[i - 1] = key THEN val ELSE kvs[i]]
    ELSE kvs \o <<key, val>>

RECURSIVE deserialize_value(_)
RECURSIVE deserialize_list(_, _)
RECURSIVE deserialize_pairs(_, _, _)
\* while let Some(item_bytes) = extract_next_slice(..): an error of an item is
\* the error of the list.
deserialize_list(value, cursor) ==
    LET next == extract_next_slice(value, cursor)
    IN IF next.panics THEN DecodePanic
       ELSE IF ~next.some THEN Decoded(<<>>)
       ELSE LET item == deserialize_value(next.slice)
            IN IF ~item.ok THEN item
               ELSE LET rest == deserialize_list(value, next.cursor)
                    IN IF rest.ok THEN Decoded(<<item.value>> \o rest.value)
                       ELSE rest

\* The dict loop, kvs being the dict built so far: both extractions are made
\* before the pattern is matched, and the loop goes on while both gave a slice.
deserialize_pairs(value, cursor, kvs) ==
    LET k == extract_next_slice(value, cursor)
    IN IF k.panics THEN DecodePanic
       ELSE LET v == extract_next_slice(value, k.cursor)
            IN IF v.panics THEN DecodePanic
               ELSE IF ~(k.some /\ v.some) THEN Decoded(kvs)
               ELSE LET key == deserialize_value(k.slice)
                    IN IF ~key.ok THEN key
                       ELSE LET val == deserialize_value(v.slice)
                            IN IF ~val.ok THEN val
                               ELSE IF ~hashable(key.value) THEN DecodeErr
                               ELSE deserialize_pairs(value, v.cursor,
                                        set_item(kvs, key.value, val.value))

deserialize_value(value) ==
    IF value = <<>> THEN Decoded(PyString(<<>>))
    ELSE IF value[1] = MARKER_LIST
         THEN LET list == deserialize_list(value, 1)
              IN IF list.ok THEN Decoded(PyList(list.value)) ELSE list
    ELSE IF value[1] = MARKER_DICT
         THEN LET dict == deserialize_pairs(value, 1, <<>>)
              IN IF dict.ok THEN Decoded(PyDict(dict.value)) ELSE dict
    ELSE IF is_utf8(value)
         THEN IF parse_i64_ok(value) THEN Decoded(parsed_int(value))
              ELSE IF parse_f64_ok(value) THEN Decoded(PyFloat(parse_f64(value)))
              ELSE Decoded(PyString(value))
    ELSE cloudpickle_deserialize(value)

\* ---------------------------------------------------- crate motion's codec
\* py_to_rust: Int(i64), Float, String, List, Dict with string keys; an Err
\* is "Unsupported type for bincode serialization".  A Float's 8 IEEE bytes
\* are stood for by the bytes of its text.
RECURSIVE py_to_rust_ok(_)
RECURSIVE all_py_to_rust_ok(_, _)
all_py_to_rust_ok(values, dict) ==
    \A i \in 1..Len(values) :
        IF dict /\ i % 2 = 1 THEN values[i].kind = "str" ELSE py_to_rust_ok(values[i])

py_to_rust_ok(value) ==
    \* (every integer of the model is inside the i64 range)
    IF value.kind \in {"int", "float", "str"} THEN TRUE
    ELSE IF value.kind = "list" THEN all_py_to_rust_ok(value.items, FALSE)
    ELSE IF value.kind = "dict" THEN all_py_to_rust_ok(value.items, TRUE)
    ELSE FALSE

RECURSIVE bincode_serialize(_)
RECURSIVE bincode_each(_, _)
bincode_each(values, dict) ==
    IF values = <<>> THEN <<>>
    ELSE (IF dict /\ Len(values) % 2 = 0
          THEN to_le_bytes(Len(Head(values).s)) \o Head(values).s
          ELSE bincode_serialize(Head(values)))
         \o bincode_each(Tail(values), dict)

\* bincode of enum PyValue: u32 variant index, then the payload.  (A Dict is
\* a HashMap, whose entries bincode writes in the map's iteration order; the
\* dict's own order stands for it.)
bincode_serialize(value) ==
    IF value.kind = "int" THEN LeBytes(0, 4) \o LeBytes(value.n, 8)
    ELSE IF value.kind = "float" THEN LeBytes(1, 4) \o value.s
    ELSE IF value.kind = "str"
         THEN LeBytes(2, 4) \o to_le_bytes(Len(value.s)) \o value.s
    ELSE IF value.kind = "list"
         THEN LeBytes(3, 4) \o to_le_bytes(Len(value.items))
              \o bincode_each(value.items, FALSE)
    ELSE LeBytes(4, 4) \o to_le_bytes(Len(value.items) \div 2)
         \o bincode_each(value.items, TRUE)

motion_serialize_value(value) ==
    IF py_to_rust_ok(value) THEN Ok(bincode_serialize(value))
    ELSE cloudpickle_serialize(value)

\* The values bincode::deserialize::<PyValue> is asked for in the model.
BincodeValues == {PyInt(1), PyInt(2), PyString(<<49>>)}

\* deserialize_value of crate motion: bincode::deserialize, the inverse of
\* bincode::serialize on PyValue, then rust_to_py; cloudpickle for the rest.
motion_deserialize_value(bytes) ==
    IF \E v \in BincodeValues : bincode_serialize(v) = bytes
    THEN Decoded(CHOOSE v \in BincodeValues : bincode_serialize(v) = bytes)
    ELSE cloudpickle_deserialize(bytes)

\* The deserializer of the crate an accessor belongs to.
deserialize(crate_name, bytes) ==
    IF crate_name = "motion" THEN motion_deserialize_value(bytes)
    ELSE deserialize_value(bytes)

\* The serializer of the crate an accessor belongs to.
serialize(crate_name, value) ==
    IF crate_name = "motion" THEN motion_serialize_value(value)
    ELSE serialize_value(value)

\* ------------------------------------------------------------- key names
\* Strings are sequences of byte codes.  The two literals "MOTION_STATE:" and
\* "MOTION_VERSION:" are written as one symbol each, 256 and 257, outside the
\* byte range: no name or key of the model contains their text.
component_name == <<99>>     \* "c"
instance_id == <<105>>       \* "i"
STATE_TAG == <<256>>
VERSION_TAG == <<257>>

\* format!("{}", key): str() of a dictionary key.
Display(key) == IF key.kind = "int" THEN IntText(key.n) ELSE key.s

\* format!("MOTION_STATE:{}__{}/", component_name, instance_id)
state_prefix == STATE_TAG \o component_name \o <<95, 95>> \o instance_id \o <<47>>

\* format!("MOTION_STATE:{}__{}/{}", component_name, instance_id, key)
keyname(text) == state_prefix \o text

\* format!("MOTION_VERSION:{}__{}", component_name, instance_id)
version_key == VERSION_TAG \o component_name \o <<95, 95>> \o instance_id

\* The names of any namespace (component, instance); "MOTION_LOCK:" is the
\* symbol 258.
LOCK_TAG == <<258>>

\* format!("MOTION_STATE:{}__{}/{}", component_name, instance_id, key)
keyname_of(component, instance, text) ==
    STATE_TAG \o component \o <<95, 95>> \o instance \o <<47>> \o text

\* format!("MOTION_VERSION:{}__{}", component_name, instance_id)
version_key_of(component, instance) ==
    VERSION_TAG \o component \o <<95, 95>> \o instance

\* format!("MOTION_LOCK:{}__{}", component_name, instance_id)
lock_name_of(component, instance) == LOCK_TAG \o component \o <<95, 95>> \o instance

\* str::replace(pat, ""): s without the occurrences of pat, left to right.
RECURSIVE replace_with_empty(_, _)
replace_with_empty(text, pat) ==
    IF pat = <<>> \/ Len(text) < Len(pat) THEN text
    ELSE IF SubSeq(text, 1, Len(pat)) = pat
         THEN replace_with_empty(SubSeq(text, Len(pat) + 1, Len(text)), pat)
         ELSE <<Head(text)>> \o replace_with_empty(Tail(text), pat)

\* ------------------------------------------------------------ finite maps
EmptyMap == <<>>
Put(map, key, value) ==
    [k \in DOMAIN map \cup {key} |-> IF k = key THEN value ELSE map[k]]
Remove(map, key) == [k \in DOMAIN map \ {key} |-> map[k]]

\* A Redis entry: its bytes and, as Option, the TTL it was written with.
Entry(bytes, ttl) == [bytes |-> bytes, ttl |-> ttl]

\* A cache entry: Arc<Vec<u8>> in motionstate, PyObject in motion.
CachedBytes(bytes) == [form |-> "bytes", bytes |-> bytes, obj |-> PyNone]
CachedObject(obj) == [form |-> "object", bytes |-> <<>>, obj |-> obj]

\* u64 from the decimal text Redis holds under the version key.
RECURSIVE ParseU64(_)
ParseU64(bytes) ==
    IF bytes = <<>> THEN 0
    ELSE 10 * ParseU64(SubSeq(bytes, 1, Len(bytes) - 1)) + (bytes[Len(bytes)] - 48)

\* ------------------------------------------------------------------ state
Accessors == {"A", "B"}

VARIABLES
    crate,       \* the crate the accessors are built from
    store,       \* Redis: key -> Entry, the data keys and the version key
    lock_owner,  \* holder of MOTION_LOCK:c__i in RedLock, or "free"
    version,     \* StateAccessor.version of each accessor
    cache,       \* StateAccessor.cache of each accessor: keyname -> entry
    pc,          \* where each accessor's current call stands
    call,        \* each accessor's current call: operation and arguments;
                 \* between calls, the operation of the last call (and the
                 \* key and value of a set)
    connects,    \* get_connection() calls made by the current or last call
    lock,        \* the local `lock` of the current or last call
    attempts,    \* lock() calls made by the current or last call
    answer,      \* what the last of them answered
    releases,    \* unlock() calls made by the current or last call
    result,      \* how the last call of each accessor ended
    ok_writes,   \* successful write calls of an accessor while `clean`
    clean,       \* no failed call and no clear_cache since construction
    commits,     \* pipelines that Redis executed
    reads,       \* store keys the last get of each accessor read
    returned,    \* the value the last get of each accessor returned
    probe,       \* the inputs a pure function is applied to, and its results
    last_set     \* keyname -> the value of the last committed set or bulk_set
                 \* of the StateAccessor crates whose entry has not expired

vars == <<crate, store, lock_owner, version, cache, pc, call, connects, lock,
          attempts, answer, releases, result, ok_writes, clean, commits, reads,
          returned, probe, last_set>>

NoCall == [op |-> "new", items |-> <<>>, from_migration |-> FALSE]

\* The durable version counter: con.get(version_key), 0 when the key is absent.
durable ==
    IF version_key \in DOMAIN store THEN ParseU64(store[version_key].bytes) ELSE 0

\* StateAccessor::new on the empty namespace: version 0, empty cache.
ConstructedAccessors ==
    /\ store = EmptyMap
    /\ lock_owner = "free"
    /\ version = [a \in Accessors |-> 0]
    /\ cache = [a \in Accessors |-> EmptyMap]
    /\ pc = [a \in Accessors |-> "idle"]
    /\ call = [a \in Accessors |-> NoCall]
    /\ connects = [a \in Accessors |-> 0]
    /\ lock = [a \in Accessors |-> "none"]
    /\ attempts = [a \in Accessors |-> 0]
    /\ answer = [a \in Accessors |-> "none"]
    /\ releases = [a \in Accessors |-> 0]
    /\ result = [a \in Accessors |-> "none"]
    /\ last_set = EmptyMap
    /\ ok_writes = [a \in Accessors |-> 0]
    /\ clean = [a \in Accessors |-> TRUE]
    /\ commits = 0
    /\ reads = [a \in Accessors |-> {}]
    /\ returned = [a \in Accessors |-> PyNone]

Constructed == ConstructedAccessors /\ probe = <<>>

\* Accessors of crate motionstate.
Init == crate = "motionstate" /\ Constructed

\* Accessors of crate motionstate or of crate motion.
InitSolo == crate \in {"motionstate", "motion"} /\ Constructed

\* A write call may begin (the bound of the model).
WriteAllowed(a) == version[a] < MaxVersion /\ commits < MaxCommits

\* A call of operation op is over.
Over(op) == [op |-> op, items |-> <<>>, from_migration |-> FALSE]

\* What is kept of a call that returned: of a set its key and value too.
Last(c) == IF c.op = "set" THEN c ELSE Over(c.op)

\* A call of accessor a ends (Ok, Err or a panic) with outcome res; last is
\* what is kept of it.
Ended(a, last, res) ==
    /\ pc' = [pc EXCEPT ![a] = "idle"]
    /\ call' = [call EXCEPT ![a] = last]
    /\ result' = [result EXCEPT ![a] = res]
    /\ clean' = [clean EXCEPT ![a] = clean[a] /\ res = "ok"]
    /\ ok_writes' = [ok_writes EXCEPT
                        ![a] = IF clean[a] /\ res = "ok" THEN ok_writes[a] + 1
                               ELSE IF clean[a] THEN 0 ELSE ok_writes[a]]

\* The current call of accessor a returns with outcome res.
Return(a, res) == Ended(a, Last(call[a]), res)

\* The call goes on at label next.
Goto(a, next) ==
    /\ pc' = [pc EXCEPT ![a] = next]
    /\ UNCHANGED <<call, result, clean, ok_writes>>

\* A call begins: its locals are fresh.
Begin(a, args, next) ==
    /\ pc' = [pc EXCEPT ![a] = next]
    /\ call' = [call EXCEPT ![a] = args]
    /\ result' = [result EXCEPT ![a] = "none"]
    /\ connects' = [connects EXCEPT ![a] = 1]
    /\ lock' = [lock EXCEPT ![a] = "none"]
    /\ attempts' = [attempts EXCEPT ![a] = 0]
    /\ answer' = [answer EXCEPT ![a] = "none"]
    /\ releases' = [releases EXCEPT ![a] = 0]
    /\ UNCHANGED <<clean, ok_writes>>

\* A call ends before it has any local: the locals of the last call are gone.
Fail(a, op, res) ==
    /\ Ended(a, Over(op), res)
    /\ connects' = [connects EXCEPT ![a] = 1]
    /\ lock' = [lock EXCEPT ![a] = "none"]
    /\ attempts' = [attempts EXCEPT ![a] = 0]
    /\ answer' = [answer EXCEPT ![a] = "none"]
    /\ releases' = [releases EXCEPT ![a] = 0]

\* ------------------------------------------------------- the write path
\* bulk_set's preserialization: a TempValue gives its inner value and its ttl.
item_value(value) == IF value.kind = "temp" THEN value.items[1] ELSE value
item_ttl(value) == IF value.kind = "temp" THEN <<value.n>> ELSE <<>>

\* serialized_items: (keyname, serialized_data, ttl) per item, in dict order.
serialized_items(crate_name, items) ==
    [i \in 1..Len(items) |->
        [keyname |-> keyname(Display(items[i].key)),
         data |-> serialize(crate_name, item_value(items[i].value)),
         ttl |-> item_ttl(items[i].value)]]

\* No `?` of the preserialization loop returns an error.
preserialize_ok(crate_name, items) ==
    \A i \in 1..Len(items) : serialized_items(crate_name, items)[i].data.ok

\* PyDict::get_item(text): the positions of the dict holding the str key text.
get_item(items, text) == {j \in 1..Len(items) : items[j].key = PyString(text)}

\* Crate motion looks the unserialized value up again under the stripped
\* keyname.  Where get_item answers Option (pyo3 0.19), .unwrap() panics when
\* the dict has no such str key; where it answers PyResult<Option> (pyo3
\* 0.20), .unwrap() gives None and Python's None is what gets cached.
stripped(name) == replace_with_empty(name, state_prefix)
lookup_fails(items, i) ==
    get_item(items, stripped(keyname(Display(items[i].key)))) = {}

\* What the critical section caches for item i.
cached_item(crate_name, items, i) ==
    IF crate_name = "motion"
    THEN LET found == get_item(items, stripped(keyname(Display(items[i].key))))
         IN IF found = {} THEN CachedObject(PyNone)
            ELSE CachedObject(items[CHOOSE j \in found : TRUE].value)
    ELSE CachedBytes(serialized_items(crate_name, items)[i].data.bytes)

\* The cache after the critical section's loop has handled items 1..n.
RECURSIVE cache_through(_, _, _, _)
cache_through(map, crate_name, items, n) ==
    IF n = 0 THEN map
    ELSE Put(cache_through(map, crate_name, items, n - 1),
             keyname(Display(items[n].key)), cached_item(crate_name, items, n))

\* The first item whose lookup panics in crate motion, 0 when none does.
first_panic(crate_name, items) ==
    IF crate_name = "motion" /\ \E i \in 1..Len(items) : lookup_fails(items, i)
    THEN CHOOSE i \in 1..Len(items) :
             lookup_fails(items, i) /\ \A j \in 1..(i - 1) : ~lookup_fails(items, j)
    ELSE 0

\* self.version += 1, once per call.
version_bump_per_item(ver, items) == ver + Len(items)
version_bump(ver, items) == ver + 1

\* self.version -= 1 in the error closure.
rollback_version_missing(ver) == ver
rollback_version(ver) == ver - 1

\* The error closure's undo of the cache inserts: one remove per key.
RECURSIVE rollback_cache(_, _)
rollback_cache(map, items) ==
    IF items = <<>> THEN map
    ELSE rollback_cache(Remove(map, keyname(Display(Head(items).key))), Tail(items))

\* A pipeline that writes the version the call began with.
version_written_stale(new_version) == Digits(new_version - 1)

\* .set(version_key, self.version): the bumped version, as decimal text.
version_written(new_version) == Digits(new_version)

\* The pipeline: one SET or SETEX per item in order, then SET of the version.
Command(cmd, key, ttl, bytes) == [cmd |-> cmd, key |-> key, ttl |-> ttl, bytes |-> bytes]
\* Data commands that write every item with a plain SET.
data_commands_plain(crate_name, items) ==
    [i \in 1..Len(items) |->
        LET it == serialized_items(crate_name, items)[i]
        IN Command("SET", it.keyname, <<>>, it.data.bytes)]

\* if let Some(ttl) = ttl { SETEX keyname ttl data } else { SET keyname data }
data_commands(crate_name, items) ==
    [i \in 1..Len(items) |->
        LET it == serialized_items(crate_name, items)[i]
        IN Command(IF it.ttl = <<>> THEN "SET" ELSE "SETEX", it.keyname, it.ttl,
                   it.data.bytes)]
pipeline(crate_name, items, new_version) ==
    data_commands(crate_name, items)
        \o <<Command("SET", version_key, <<>>, version_written(new_version))>>

\* The values the keynames hold once Redis has executed the pipeline of
\* items 1..n.
RECURSIVE written_through(_, _, _)
written_through(map, items, n) ==
    IF n = 0 THEN map
    ELSE Put(written_through(map, items, n - 1),
             keyname(Display(items[n].key)), item_value(items[n].value))

\* A batch of which only the first command takes effect.
execute_first(map, commands) ==
    IF commands = <<>> THEN map
    ELSE Put(map, Head(commands).key, Entry(Head(commands).bytes, Head(commands).ttl))

\* Redis executing commands in order.
RECURSIVE execute(_, _)
execute(map, commands) ==
    IF commands = <<>> THEN map
    ELSE execute(Put(map, Head(commands).key,
                     Entry(Head(commands).bytes, Head(commands).ttl)),
                 Tail(commands))

\* ---------------------------------------------------------------- actions
\* set, to the acquisition loop: get_connection().unwrap(), serialize_value()?
set_call(a, key, value) ==
    /\ pc[a] = "idle" /\ WriteAllowed(a)
    /\ \E connected \in BOOLEAN :
          IF ~connected THEN Fail(a, "set", "panic")
          ELSE IF ~serialize(crate, value).ok THEN Fail(a, "set", "encode_error")
          ELSE Begin(a, [op |-> "set",
                         items |-> <<[key |-> PyString(key), value |-> value]>>,
                         from_migration |-> FALSE], "lock")
    /\ UNCHANGED <<crate, last_set, reads, returned, probe, store, lock_owner, version, cache, commits>>

\* `if !from_migration { .. }`: where bulk_set goes on after preserializing.
after_preserialize_always_lock(from_migration) == "lock"
after_preserialize(from_migration) == IF from_migration THEN "critical" ELSE "lock"

\* bulk_set, to the acquisition loop or, from a migration, past it.
bulk_set_call(a, items, from_migration) ==
    /\ pc[a] = "idle" /\ WriteAllowed(a)
    /\ \E connected \in BOOLEAN :
          IF ~connected THEN Fail(a, "bulk_set", "panic")
          ELSE IF ~preserialize_ok(crate, items) THEN Fail(a, "bulk_set", "encode_error")
          ELSE Begin(a, [op |-> "bulk_set", items |-> items,
                         from_migration |-> from_migration],
                     after_preserialize(from_migration))
    /\ UNCHANGED <<crate, last_set, reads, returned, probe, store, lock_owner, version, cache, commits>>

\* lock_manager.lock answers Ok(Some(l)): the loop breaks.
lock_acquired(a) ==
    /\ pc[a] = "lock" /\ lock_owner = "free"
    /\ lock_owner' = a
    /\ lock' = [lock EXCEPT ![a] = "held"]
    /\ attempts' = [attempts EXCEPT ![a] = attempts[a] + 1]
    /\ answer' = [answer EXCEPT ![a] = "Ok(Some)"]
    /\ Goto(a, "critical")
    /\ UNCHANGED <<crate, last_set, reads, returned, probe, connects, store, version, cache, releases, commits>>

\* The loop has run all its rounds: `if lock.is_none()` returns the error.
loop_exhausted_late(made) == made > max_lock_attempts
loop_exhausted(made) == made >= max_lock_attempts

\* A return without the lock that first tries to release it.
releases_without_lock_one(made) == made + 1

\* The returns without the lock come before any lock_manager.unlock: the
\* release attempts stay as many as they were.
releases_without_lock(made) == made

\* lock_manager.lock answers Ok(None): sleep 100 ms, next round of the loop.
lock_not_acquired(a) ==
    /\ pc[a] = "lock" /\ lock_owner # "free"
    /\ attempts' = [attempts EXCEPT ![a] = attempts[a] + 1]
    /\ answer' = [answer EXCEPT ![a] = "Ok(None)"]
    /\ IF loop_exhausted(attempts[a] + 1)
       THEN /\ Return(a, "lock_timeout")
            /\ releases' = [releases EXCEPT ![a] = releases_without_lock(releases[a])]
       ELSE Goto(a, "lock") /\ UNCHANGED releases
    /\ UNCHANGED <<crate, last_set, reads, returned, probe, connects, store, lock_owner, version, cache, lock, commits>>

\* The mutant of lock_error: the Redis error is taken for "not acquired".
lock_error_retried(a) ==
    /\ pc[a] = "lock"
    /\ attempts' = [attempts EXCEPT ![a] = attempts[a] + 1]
    /\ answer' = [answer EXCEPT ![a] = "Err"]
    /\ IF loop_exhausted(attempts[a] + 1) THEN Return(a, "lock_error")
       ELSE Goto(a, "lock")
    /\ UNCHANGED <<crate, last_set, reads, returned, probe, connects, store, lock_owner, version, cache, lock, releases, commits>>

\* lock_manager.lock answers Err(e): the call returns the error.
lock_error(a) ==
    /\ pc[a] = "lock"
    /\ attempts' = [attempts EXCEPT ![a] = attempts[a] + 1]
    /\ answer' = [answer EXCEPT ![a] = "Err"]
    /\ Return(a, "lock_error")
    /\ releases' = [releases EXCEPT ![a] = releases_without_lock(releases[a])]
    /\ UNCHANGED <<crate, last_set, reads, returned, probe, connects, store, lock_owner, version, cache, lock, commits>>

\* A set that caches nothing of the value.
set_entry_empty(crate_name, value, data) ==
    IF crate_name = "motion" THEN CachedObject(PyNone) ELSE CachedBytes(<<>>)

\* self.cache.insert(keyname.clone(), ...) of set: crate motion caches the
\* object it was given, crate motionstate the serialized bytes.
set_entry(crate_name, value, data) ==
    IF crate_name = "motion" THEN CachedObject(value) ELSE CachedBytes(data)

\* set's critical section: cache insert, version bump, atomic pipeline and,
\* when the pipeline fails, the error closure's undo.
set_commit(a) ==
    /\ pc[a] = "critical" /\ call[a].op = "set"
    /\ LET items == call[a].items
           name == keyname(Display(items[1].key))
           data == serialize(crate, items[1].value).bytes
           entry == set_entry(crate, items[1].value, data)
           inserted == Put(cache[a], name, entry)
           bumped == version_bump(version[a], items)
           commands == <<Command("SET", name, <<>>, data),
                         Command("SET", version_key, <<>>, version_written(bumped))>>
       IN \E committed \in BOOLEAN :
             IF committed
             THEN /\ store' = execute(store, commands)
                  /\ commits' = commits + 1
                  /\ last_set' = written_through(last_set, items, 1)
                  /\ cache' = [cache EXCEPT ![a] = inserted]
                  /\ version' = [version EXCEPT ![a] = bumped]
                  /\ Goto(a, "unlock_ok")
             ELSE /\ cache' = [cache EXCEPT ![a] = rollback_cache(inserted, items)]
                  /\ version' = [version EXCEPT ![a] = rollback_version(bumped)]
                  /\ Goto(a, "unlock_err")
                  /\ UNCHANGED <<store, commits, last_set>>
    /\ UNCHANGED <<crate, reads, returned, probe, connects, lock_owner, lock, attempts, answer, releases>>

\* bulk_set's critical section.  In crate motion the loop panics at the first
\* item whose lookup fails, in a build where that unwrap panics: the items
\* before it are cached, the lock is not released, the version is not yet
\* bumped.
bulk_set_commit(a) ==
    /\ pc[a] = "critical" /\ call[a].op = "bulk_set"
    /\ \E unwrap_panics \in BOOLEAN :
       LET items == call[a].items
           stop == IF unwrap_panics THEN first_panic(crate, items) ELSE 0
           inserted == cache_through(cache[a], crate, items, Len(items))
           bumped == version_bump(version[a], items)
       IN IF stop # 0
          THEN /\ cache' = [cache EXCEPT
                               ![a] = cache_through(cache[a], crate, items, stop - 1)]
               /\ Return(a, "panic")
               /\ UNCHANGED <<store, commits, version, last_set>>
          ELSE \E committed \in BOOLEAN :
                 IF committed
                 THEN /\ store' = execute(store, pipeline(crate, items, bumped))
                      /\ commits' = commits + 1
                      /\ last_set' = written_through(last_set, items, Len(items))
                      /\ cache' = [cache EXCEPT ![a] = inserted]
                      /\ version' = [version EXCEPT ![a] = bumped]
                      /\ IF call[a].from_migration THEN Return(a, "ok")
                         ELSE Goto(a, "unlock_ok")
                 ELSE /\ cache' = [cache EXCEPT ![a] = rollback_cache(inserted, items)]
                      /\ version' = [version EXCEPT ![a] = rollback_version(bumped)]
                      /\ IF call[a].from_migration THEN Return(a, "commit_error")
                         ELSE Goto(a, "unlock_err")
                      /\ UNCHANGED <<store, commits, last_set>>
    /\ UNCHANGED <<crate, reads, returned, probe, connects, lock_owner, lock, attempts, answer, releases>>

\* lock_manager.unlock(lock): RedLock deletes the key if it still holds this
\* lock's value; the answer is not looked at.
unlock(a) ==
    /\ lock_owner' = IF lock_owner = a THEN "free" ELSE lock_owner
    /\ releases' = [releases EXCEPT ![a] = releases[a] + 1]

\* "Drop the lock" after the pipeline succeeded, then Ok(()).
unlock_after_commit(a) ==
    /\ pc[a] = "unlock_ok"
    /\ unlock(a)
    /\ Return(a, "ok")
    /\ UNCHANGED <<crate, last_set, reads, returned, probe, connects, store, version, cache, lock, attempts, answer, commits>>

\* "Drop the lock" in the error closure, then the error.
unlock_after_error(a) ==
    /\ pc[a] = "unlock_err"
    /\ unlock(a)
    /\ Return(a, "commit_error")
    /\ UNCHANGED <<crate, last_set, reads, returned, probe, connects, store, version, cache, lock, attempts, answer, commits>>

\* A clear that drops nothing.
cleared_nothing(map) == map

\* self.cache.clear()
cleared(map) == EmptyMap

\* clear_cache when Redis gives no connection, answers the GET of the version
\* key, or fails it: cache.clear(), then the version Redis holds, 0 when the
\* read fails (unwrap_or(0)); get_connection().unwrap() panics in between.
\* clear_cache returns (), result "none".
clear_cache_when(a, outcome) ==
    /\ pc[a] = "idle"
    /\ cache' = [cache EXCEPT ![a] = cleared(cache[a])]
    /\ version' = [version EXCEPT
                      ![a] = IF outcome = "no_connection" THEN version[a]
                             ELSE IF outcome = "read" THEN durable ELSE 0]
    /\ result' = [result EXCEPT
                     ![a] = IF outcome = "no_connection" THEN "panic" ELSE "none"]
    /\ clean' = [clean EXCEPT ![a] = FALSE]
    /\ ok_writes' = [ok_writes EXCEPT ![a] = 0]
    /\ connects' = [connects EXCEPT ![a] = 1]
    /\ lock' = [lock EXCEPT ![a] = "none"]
    /\ attempts' = [attempts EXCEPT ![a] = 0]
    /\ answer' = [answer EXCEPT ![a] = "none"]
    /\ releases' = [releases EXCEPT ![a] = 0]
    /\ call' = [call EXCEPT ![a] = Over("clear_cache")]
    /\ UNCHANGED <<crate, last_set, reads, returned, probe, store, lock_owner, pc, commits>>

clear_cache(a) ==
    \E outcome \in {"no_connection", "read", "read_error"} : clear_cache_when(a, outcome)

\* A lock whose key never expires.
lock_never_expires == FALSE /\ UNCHANGED vars

\* The lock's duration elapses: RedLock's key expires.
lock_expire ==
    /\ lock_owner # "free"
    /\ lock_owner' = "free"
    /\ UNCHANGED <<crate, last_set, reads, returned, probe, connects, store, version, cache, pc, call, lock, attempts, answer,
                   releases, result, ok_writes, clean, commits>>

\* An entry written by SETEX expires.
entry_expire(key) ==
    /\ key \in DOMAIN store /\ store[key].ttl # <<>>
    /\ store' = Remove(store, key)
    /\ last_set' = Remove(last_set, key)
    /\ UNCHANGED <<crate, reads, returned, probe, connects, lock_owner, version, cache, pc, call, lock, attempts,
                   answer, releases, result, ok_writes, clean, commits>>

\* ------------------------------------------------------- the read path
\* The locals of a call without a lock.
NoLock(a) ==
    /\ lock' = [lock EXCEPT ![a] = "none"]
    /\ attempts' = [attempts EXCEPT ![a] = 0]
    /\ answer' = [answer EXCEPT ![a] = "none"]
    /\ releases' = [releases EXCEPT ![a] = 0]

\* `if let Some(value) = self.cache.get(&keyname)`
cache_hit_never(map, name) == FALSE
cache_hit(map, name) == name \in DOMAIN map

\* Ok(None) => Err(PyKeyError("Key not found")): the cache stays as it is.
cache_after_not_found_negative(map, name) == Put(map, name, CachedBytes(<<>>))
cache_after_not_found(map, name) == map

\* A get that evicts the entry it served.
cache_after_hit_evicted(map, name) == Remove(map, name)

\* `return deserialize_value(py, &*value)` on a hit: the entry stays.
cache_after_hit(map, name) == map

\* A get that keeps in the cache nothing but the entry it has read.
cache_after_found_alone(crate_name, map, name, data, miss) ==
    IF crate_name = "motion"
    THEN (IF miss.ok THEN Put(EmptyMap, name, CachedObject(miss.value)) ELSE EmptyMap)
    ELSE Put(EmptyMap, name, CachedBytes(data))

\* Ok(Some(data)): crate motionstate inserts the bytes and then decodes them,
\* crate motion decodes (`?`) and then inserts the object.
cache_after_found(crate_name, map, name, data, miss) ==
    IF crate_name = "motion"
    THEN (IF miss.ok THEN Put(map, name, CachedObject(miss.value)) ELSE map)
    ELSE Put(map, name, CachedBytes(data))

\* get returns: res is "ok" with the value, or the error.
get_returns(a, res, value, read) ==
    /\ call' = [call EXCEPT ![a] = Over("get")]
    /\ result' = [result EXCEPT ![a] = res]
    /\ returned' = [returned EXCEPT ![a] = value]
    /\ reads' = [reads EXCEPT ![a] = read]

\* get: the cache first; on a miss one GET of the keyname.  Crate motionstate
\* caches the bytes and then decodes them, crate motion decodes and then
\* caches the object.
get(a, key) ==
    /\ pc[a] = "idle"
    /\ LET name == keyname(key)
       IN IF cache_hit(cache[a], name)
          THEN LET hit == IF crate = "motion" THEN Decoded(cache[a][name].obj)
                          ELSE deserialize_value(cache[a][name].bytes)
               IN /\ get_returns(a, IF hit.ok THEN "ok" ELSE "decode_error",
                                 hit.value, {})
                  /\ connects' = [connects EXCEPT ![a] = 0]
                  /\ cache' = [cache EXCEPT ![a] = cache_after_hit(cache[a], name)]
          ELSE /\ connects' = [connects EXCEPT ![a] = 1]
               /\ \E outcome \in {"panic", "read", "read_error"} :
                     IF outcome # "read"
                     THEN get_returns(a, outcome, PyNone,
                                      IF outcome = "panic" THEN {} ELSE {name})
                          /\ cache' = cache
                     ELSE IF name \notin DOMAIN store
                     THEN /\ get_returns(a, "key_error", PyNone, {name})
                          /\ cache' = [cache EXCEPT
                                          ![a] = cache_after_not_found(cache[a], name)]
                     ELSE LET data == store[name].bytes
                              miss == deserialize(crate, data)
                          IN /\ get_returns(a, IF miss.ok THEN "ok" ELSE "decode_error",
                                            miss.value, {name})
                             /\ cache' = [cache EXCEPT
                                   ![a] = cache_after_found(crate, cache[a], name,
                                                            data, miss)]
    /\ NoLock(a)
    /\ UNCHANGED <<crate, last_set, probe, store, lock_owner, version, pc, clean, ok_writes, commits>>

\* Redis KEYS pattern matching: * is any run of characters, ? any one; the
\* names of the model hold no other special character.
RECURSIVE glob_match(_, _)
glob_match(pattern, text) ==
    IF pattern = <<>> THEN text = <<>>
    ELSE IF Head(pattern) = 42
         THEN \E i \in 0..Len(text) :
                 glob_match(Tail(pattern), SubSeq(text, i + 1, Len(text)))
    ELSE /\ text # <<>>
         /\ Head(pattern) = 63 \/ Head(pattern) = Head(text)
         /\ glob_match(Tail(pattern), Tail(text))

\* format!("MOTION_STATE:{}__{}/{}", component_name, instance_id, "*")
keys_pattern == keyname(<<42>>)

\* pattern.replace("*", "")
RECURSIVE remove_byte(_, _)
remove_byte(text, b) ==
    IF text = <<>> THEN <<>>
    ELSE (IF Head(text) = b THEN <<>> ELSE <<Head(text)>>) \o remove_byte(Tail(text), b)
\* A pattern left as it is, "*" included.
replaced_pattern_kept == keys_pattern

replaced_pattern == remove_byte(keys_pattern, 42)

\* What con.keys(pattern) finds.
found_keys == {k \in DOMAIN store : glob_match(keys_pattern, k)}

\* The lists keys() can return: Redis answers KEYS in no particular order.
Orders(names) ==
    {o \in [1..Cardinality(names) -> names] : \A i, j \in DOMAIN o : i # j => o[i] # o[j]}

\* A keys() that drops the cache.
cache_after_keys_cleared(map) == EmptyMap

\* keys(&self): the cache is not borrowed mutably, nor read.
cache_after_keys(map) == map

\* keys: one KEYS on the namespace's pattern, the prefix replaced away.
keys(a) ==
    /\ pc[a] = "idle"
    /\ \E outcome \in {"panic", "read", "read_error"} :
          IF outcome = "read"
          THEN /\ \E o \in Orders(found_keys) :
                     returned' = [returned EXCEPT
                        ![a] = PyList([i \in DOMAIN o |->
                                   PyString(replace_with_empty(o[i], replaced_pattern))])]
               /\ result' = [result EXCEPT ![a] = "ok"]
          ELSE /\ returned' = [returned EXCEPT ![a] = PyNone]
               /\ result' = [result EXCEPT ![a] = outcome]
    /\ call' = [call EXCEPT ![a] = Over("keys")]
    /\ connects' = [connects EXCEPT ![a] = 1]
    /\ cache' = [cache EXCEPT ![a] = cache_after_keys(cache[a])]
    /\ NoLock(a)
    /\ UNCHANGED <<crate, last_set, probe, reads, store, lock_owner, version, pc, clean,
                   ok_writes, commits>>

\* PyTuple::new(py, &[py_key, value])
PyTuple(elements) == [kind |-> "tuple", n |-> 0, s |-> <<>>, items |-> elements]

\* What self.get(py, key) can do with the cache map: its result, the value it
\* returns and the cache it leaves.
get_results(map, key) ==
    LET name == keyname(key)
    IN IF cache_hit(map, name)
       THEN LET hit == IF crate = "motion" THEN Decoded(map[name].obj)
                       ELSE deserialize_value(map[name].bytes)
            IN {[res |-> IF hit.ok THEN "ok" ELSE "decode_error",
                 value |-> hit.value, cache |-> cache_after_hit(map, name)]}
       ELSE {[res |-> outcome, value |-> PyNone, cache |-> map] :
                 outcome \in {"panic", "read_error"}}
            \cup
            (IF name \notin DOMAIN store
             THEN {[res |-> "key_error", value |-> PyNone,
                    cache |-> cache_after_not_found(map, name)]}
             ELSE LET data == store[name].bytes
                      miss == deserialize(crate, data)
                  IN {[res |-> IF miss.ok THEN "ok" ELSE "decode_error",
                       value |-> miss.value,
                       cache |-> cache_after_found(crate, map, name, data, miss)]})

\* An items() or values() whose loop stops at an error returns what it has
\* gathered.
after_get_error_partial(res, gathered) == [result |-> "ok", returned |-> gathered]

\* `self.get(py, &key)?` inside the loop: the error of the get is the error
\* of the call, the list gathered so far is dropped.
after_get_error(res, gathered) == [result |-> res, returned |-> PyNone]

\* What items() and values() append for a key and its value.
appended(op, key, value) ==
    IF op = "items" THEN PyTuple(<<PyString(key), value>>) ELSE value

\* items() and values(), to their loop: get_connection().unwrap(), one KEYS
\* on the namespace's pattern, the prefix replaced away from each name.  With
\* no key found the empty list is returned.  call[a].items are the keys, the
\* next one to get being the one after those whose values are gathered.
enumerate_call(a, op) ==
    /\ pc[a] = "idle"
    /\ \E outcome \in {"panic", "read", "read_error"} :
          IF outcome = "read"
          THEN \E o \in Orders(found_keys) :
                  LET names == [i \in DOMAIN o |->
                                   replace_with_empty(o[i], replaced_pattern)]
                  IN /\ call' = [call EXCEPT
                                    ![a] = [op |-> op, items |-> names,
                                            from_migration |-> FALSE]]
                     /\ pc' = [pc EXCEPT
                                  ![a] = IF names = <<>> THEN "idle" ELSE "resolve"]
                     /\ result' = [result EXCEPT
                                      ![a] = IF names = <<>> THEN "ok" ELSE "none"]
                     /\ returned' = [returned EXCEPT ![a] = PyList(<<>>)]
          ELSE /\ call' = [call EXCEPT ![a] = Over(op)]
               /\ result' = [result EXCEPT ![a] = outcome]
               /\ returned' = [returned EXCEPT ![a] = PyNone]
               /\ pc' = pc
    /\ connects' = [connects EXCEPT ![a] = 1]
    /\ reads' = [reads EXCEPT ![a] = {}]
    /\ NoLock(a)
    /\ UNCHANGED <<crate, last_set, probe, store, lock_owner, version, cache, clean,
                   ok_writes, commits>>

\* One round of the loop of items() and values(): the get of the next key.
resolve_next(a) ==
    /\ pc[a] = "resolve"
    /\ LET op == call[a].op
           at == Len(returned[a].items) + 1
           key == call[a].items[at]
       IN \E r \in get_results(cache[a], key) :
             /\ cache' = [cache EXCEPT ![a] = r.cache]
             /\ reads' = [reads EXCEPT ![a] = reads[a] \cup {keyname(key)}]
             /\ IF r.res = "ok"
                THEN /\ returned' = [returned EXCEPT
                           ![a] = PyList(returned[a].items
                                             \o <<appended(op, key, r.value)>>)]
                     /\ IF at = Len(call[a].items)
                        THEN /\ pc' = [pc EXCEPT ![a] = "idle"]
                             /\ result' = [result EXCEPT ![a] = "ok"]
                        ELSE UNCHANGED <<pc, result>>
                ELSE LET end == after_get_error(r.res, returned[a])
                     IN /\ pc' = [pc EXCEPT ![a] = "idle"]
                        /\ result' = [result EXCEPT ![a] = end.result]
                        /\ returned' = [returned EXCEPT ![a] = end.returned]
    /\ UNCHANGED <<crate, last_set, probe, store, lock_owner, version, clean, ok_writes,
                   commits, call, connects, lock, attempts, answer, releases>>

\* StateAccessor::new, for a process that starts (again), when the URL does
\* not parse, Redis gives no connection, answers the GET of the version key,
\* or fails it: Client::open's
\* error is returned, get_connection().unwrap() panics, and the version is
\* what Redis holds, 0 when the read fails.  After an error or a panic there
\* is no accessor.
new_when(a, outcome) ==
    /\ pc[a] \in {"idle", "unbuilt"}
    /\ pc' = [pc EXCEPT ![a] = IF outcome \in {"read", "read_error"}
                               THEN "idle" ELSE "unbuilt"]
    /\ result' = [result EXCEPT
                     ![a] = IF outcome \in {"read", "read_error"} THEN "ok"
                            ELSE IF outcome = "no_connection" THEN "panic"
                            ELSE outcome]
    /\ version' = [version EXCEPT ![a] = IF outcome = "read" THEN durable ELSE 0]
    /\ connects' = [connects EXCEPT ![a] = IF outcome = "open_error" THEN 0 ELSE 1]
    /\ cache' = [cache EXCEPT ![a] = EmptyMap]
    /\ call' = [call EXCEPT ![a] = NoCall]
    /\ clean' = [clean EXCEPT ![a] = FALSE]
    /\ ok_writes' = [ok_writes EXCEPT ![a] = 0]
    /\ reads' = [reads EXCEPT ![a] = {}]
    /\ returned' = [returned EXCEPT ![a] = PyNone]
    /\ NoLock(a)
    /\ UNCHANGED <<crate, last_set, probe, store, lock_owner, commits>>

new(a) ==
    \E outcome \in {"open_error", "no_connection", "read", "read_error"} :
        new_when(a, outcome)

\* ------------------------------------------------------------------ inputs
KeyA == <<97>>      \* "a"
Key1 == <<49>>      \* "1"
V1 == PyInt(1)
V2 == PyInt(2)
Unpicklable == PyOpaque(FALSE, <<>>)
Item(key, value) == [key |-> key, value |-> value]

\* The dictionaries with distinct keys made of the given items.
Dicts(choices) ==
    {d \in UNION {[1..n -> choices] : n \in 0..MaxItems} :
        \A i, j \in 1..Len(d) : i # j => d[i].key # d[j].key}

\* Two writers contending for the namespace.
ContendedKeys == {KeyA}
ContendedValues == {V1}
ContendedDicts == Dicts({Item(PyString(KeyA), V2)})

\* -------------------------------------------------------- specification
Next ==
    \/ \E a \in Accessors :
          \/ \E key \in ContendedKeys, value \in ContendedValues : set_call(a, key, value)
          \/ \E items \in ContendedDicts, from_migration \in BOOLEAN :
                bulk_set_call(a, items, from_migration)
          \/ lock_acquired(a)
          \/ lock_not_acquired(a)
          \/ lock_error(a)
          \/ set_commit(a)
          \/ bulk_set_commit(a)
          \/ unlock_after_commit(a)
          \/ unlock_after_error(a)
          \/ clear_cache(a)
    \/ lock_expire

Spec == Init /\ [][Next]_vars

\* One accessor alone on the namespace, with every kind of item: a str key, an
\* int key, a TempValue, a value cloudpickle cannot dump.
SoloKeys == {KeyA, Key1}
SoloValues == {V1, V2, Unpicklable}
SoloDicts ==
    Dicts({Item(PyString(KeyA), V1), Item(PyString(KeyA), V2), Item(PyInt(1), V2),
           Item(PyString(KeyA), TempValue(V1, 60)), Item(PyInt(1), Unpicklable)})

NextSolo ==
    \/ \E a \in {"A"} :
          \/ \E key \in SoloKeys, value \in SoloValues : set_call(a, key, value)
          \/ \E items \in SoloDicts, from_migration \in BOOLEAN :
                bulk_set_call(a, items, from_migration)
          \/ lock_acquired(a)
          \/ lock_not_acquired(a)
          \/ lock_error(a)
          \/ set_commit(a)
          \/ bulk_set_commit(a)
          \/ unlock_after_commit(a)
          \/ unlock_after_error(a)
          \/ clear_cache(a)
    \/ lock_expire
    \/ \E key \in DOMAIN store : entry_expire(key)

SpecSolo == InitSolo /\ [][NextSolo]_vars

\* A migration bulk-setting with and without the lock while another accessor
\* sets under the lock.
NextSkip ==
    \/ \E a \in {"A"} :
          \/ \E items \in ContendedDicts, from_migration \in BOOLEAN :
                bulk_set_call(a, items, from_migration)
          \/ lock_not_acquired(a)
          \/ lock_error(a)
          \/ bulk_set_commit(a)
    \/ \E a \in {"B"} :
          \/ \E key \in ContendedKeys, value \in ContendedValues : set_call(a, key, value)
          \/ set_commit(a)
    \/ \E a \in Accessors :
          \/ lock_acquired(a)
          \/ unlock_after_commit(a)
          \/ unlock_after_error(a)
    \/ lock_expire

SpecSkip == InitSolo /\ [][NextSkip]_vars

\* The same accessors, any of which may stall or crash at any point of a
\* call, with RedLock's key expiring once the lock's duration has elapsed
\* (SET .. PX lock_duration): time passes whatever the accessors do.
SpecExpire == InitSolo /\ [][NextSkip]_vars /\ WF_vars(lock_expire)

\* A step of the call accessor a is in: set and bulk_set run synchronously on
\* the caller's thread, sleeping 100 ms between rounds of the lock loop.
InCall(a) ==
    \/ lock_acquired(a)
    \/ lock_not_acquired(a)
    \/ lock_error(a)
    \/ set_commit(a)
    \/ bulk_set_commit(a)
    \/ unlock_after_commit(a)
    \/ unlock_after_error(a)

\* The same accessors, each thread going on with the call it is in; the lock
\* may stay held by another accessor for any time.
SpecProgress == InitSolo /\ [][NextSkip]_vars /\ \A a \in Accessors : WF_vars(InCall(a))

\* One accessor writing and reading its namespace: a value that is a number's
\* text, a caller key that holds the namespace prefix, an item that expires.
S1 == PyString(<<49>>)            \* "1"
KeyP == state_prefix \o KeyA      \* "MOTION_STATE:c__i/a"
ReadKeys == {KeyA, KeyP}
ReadValues == {V1, S1}
ReadDicts == Dicts({Item(PyString(KeyA), TempValue(V2, 60))})

NextRead ==
    \/ \E a \in {"A"} :
          \/ \E key \in ReadKeys, value \in ReadValues : set_call(a, key, value)
          \/ lock_acquired(a)
          \/ set_commit(a)
          \/ unlock_after_commit(a)
          \/ unlock_after_error(a)
          \/ clear_cache(a)
          \/ \E key \in ReadKeys : get(a, key)
          \/ keys(a)
          \/ new(a)
          \/ \E items \in ReadDicts : bulk_set_call(a, items, TRUE)
          \/ bulk_set_commit(a)
    \/ \E key \in DOMAIN store : entry_expire(key)

SpecRead == InitSolo /\ [][NextRead]_vars

\* One accessor that writes plain and expiring entries and enumerates them
\* with items() and values(), entries expiring at any moment.
ItemsDicts == Dicts({Item(PyString(Key1), TempValue(S1, 60))})

NextItems ==
    \/ \E a \in {"A"} :
          \/ \E key \in ReadKeys, value \in {V1} : set_call(a, key, value)
          \/ lock_acquired(a)
          \/ set_commit(a)
          \/ unlock_after_commit(a)
          \/ unlock_after_error(a)
          \/ clear_cache(a)
          \/ \E items \in ItemsDicts : bulk_set_call(a, items, TRUE)
          \/ bulk_set_commit(a)
          \/ \E op \in {"items", "values"} : enumerate_call(a, op)
          \/ resolve_next(a)
          \/ keys(a)
          \/ get(a, KeyA)
    \/ \E key \in DOMAIN store : entry_expire(key)

SpecItems == InitSolo /\ [][NextItems]_vars

\* Accessor A writes, reads and clears its cache while accessor B overwrites
\* the same key and A's expiring entry runs out.
SharedDicts == Dicts({Item(PyString(KeyA), TempValue(V2, 60))})

NextShared ==
    \/ \E a \in {"A"} :
          \/ set_call(a, KeyA, V1)
          \/ \E items \in SharedDicts : bulk_set_call(a, items, TRUE)
          \/ bulk_set_commit(a)
          \/ get(a, KeyA)
          \/ clear_cache(a)
    \/ \E a \in {"B"} : set_call(a, KeyA, V2)
    \/ \E a \in Accessors :
          \/ lock_acquired(a)
          \/ set_commit(a)
          \/ unlock_after_commit(a)
          \/ unlock_after_error(a)
    \/ \E key \in DOMAIN store : entry_expire(key)

SpecShared == InitSolo /\ [][NextShared]_vars

\* The names two namespaces derive.  Component names, instance ids and keys
\* are strings over "a", "_" and "/".
NameLetters == {97, 95, 47}
Names == UNION {[1..n -> NameLetters] : n \in 1..MaxNameLen}
ProbeKeys == {<<97>>, <<97, 47, 97>>}

\* The names that accessors of (c1, i1) and of (c2, i2) use for the keys k1
\* and k2.
derive_names(c1, i1, k1, c2, i2, k2) ==
    /\ probe' = [first |-> <<c1, i1>>, second |-> <<c2, i2>>,
                 keys |-> <<k1, k2>>,
                 keynames |-> <<keyname_of(c1, i1, k1), keyname_of(c2, i2, k2)>>,
                 version_keys |-> <<version_key_of(c1, i1), version_key_of(c2, i2)>>,
                 lock_names |-> <<lock_name_of(c1, i1), lock_name_of(c2, i2)>>]
    /\ UNCHANGED <<crate, last_set, reads, returned, store, lock_owner, version, cache,
                   pc, call, connects, lock, attempts, answer, releases, result,
                   ok_writes, clean, commits>>

\* One derivation per behaviour.
NextNames ==
    /\ probe = <<>>
    /\ \E c1, i1, c2, i2 \in Names : \E k1, k2 \in ProbeKeys :
          derive_names(c1, i1, k1, c2, i2, k2)
SpecNames == InitSolo /\ [][NextNames]_vars

\* ------------------------------------------- the codec of crate motionstate
\* The primitives handed to the codec: integers, floats (by their str()),
\* and strings: "a", the digits "1", the float's text "1.5", "nan", and the
\* string of the one character U+0001.
CodecInts == {PyInt(0), PyInt(42), PyInt(0 - 7)}
CodecFloats == {PyFloat(<<49, 46, 53>>), PyFloat(<<45, 48, 46, 50, 53>>)}
CodecStrings ==
    {PyString(<<97>>), PyString(<<49>>), PyString(<<49, 46, 53>>),
     PyString(<<110, 97, 110>>), PyString(<<1>>)}
Primitives == CodecInts \cup CodecFloats \cup CodecStrings

\* Lists of primitives.
CodecLists == {PyList(l) : l \in UNION {[1..n -> Primitives] : n \in 0..MaxListLen}}

\* Maps from strings to primitives: distinct keys, in insertion order.
CodecMapKeys == {PyString(<<97>>), PyString(<<98>>), PyString(<<1>>)}
CodecEntries(n) ==
    {e \in [1..n -> CodecMapKeys \X Primitives] :
        \A i, j \in 1..n : i # j => e[i][1] # e[j][1]}
Flat(e) == [i \in 1..(2 * Len(e)) |-> e[(i + 1) \div 2][2 - (i % 2)]]
CodecMaps == {PyDict(Flat(e)) : e \in UNION {CodecEntries(n) : n \in 0..MaxListLen}}

CodecValues == Primitives \cup CodecLists \cup CodecMaps

\* A value is handed to serialize_value.
InitCodec ==
    /\ crate = "motionstate" /\ ConstructedAccessors
    /\ \E v \in CodecValues :
          probe = [stage |-> "value", value |-> v, encoded |-> Err, decoded |-> DecodeErr]

\* serialize_value(value)
codec_encode ==
    /\ probe.stage = "value"
    /\ probe' = [probe EXCEPT !.stage = "encoded",
                              !.encoded = serialize_value(probe.value)]
    /\ UNCHANGED <<crate, last_set, reads, returned, store, lock_owner, version, cache,
                   pc, call, connects, lock, attempts, answer, releases, result,
                   ok_writes, clean, commits>>

\* deserialize_value(bytes) of the bytes it gave.
codec_decode ==
    /\ probe.stage = "encoded" /\ probe.encoded.ok
    /\ probe' = [probe EXCEPT !.stage = "decoded",
                              !.decoded = deserialize_value(probe.encoded.bytes)]
    /\ UNCHANGED <<crate, last_set, reads, returned, store, lock_owner, version, cache,
                   pc, call, connects, lock, attempts, answer, releases, result,
                   ok_writes, clean, commits>>

NextCodec == codec_encode \/ codec_decode
SpecCodec == InitCodec /\ [][NextCodec]_vars

\* Byte strings handed to deserialize_value: the encodings of the Lists and
\* Maps above cut off after any number of bytes, and a marker followed by a
\* length prefix that announces more than the input holds, with or without
\* bytes after it.
Prefixes(bytes) == {SubSeq(bytes, 1, n) : n \in 1..Len(bytes)}
Truncated(values) == UNION {Prefixes(serialize_value(v).bytes) : v \in values}
LongLengths ==
    {<<5, 0, 0, 0, 0, 0, 0, 0>>, <<0, 0, 0, 0, 1, 0, 0, 0>>,
     <<0, 0, 0, 0, 0, 0, 0, 128>>, <<255, 255, 255, 255, 255, 255, 255, 255>>}
Announced ==
    {<<marker>> \o length \o rest :
        marker \in {MARKER_LIST, MARKER_DICT}, length \in LongLengths,
        rest \in {<<>>, <<97>>, <<1, 0, 0, 0, 0, 0, 0, 0, 97>>}}

InitDecode ==
    /\ crate = "motionstate" /\ ConstructedAccessors
    /\ \E bytes \in Truncated(CodecLists \cup CodecMaps) \cup Announced :
          probe = [stage |-> "encoded", value |-> PyNone, encoded |-> Ok(bytes),
                   decoded |-> DecodeErr]

NextDecode == codec_decode
SpecDecode == InitDecode /\ [][NextDecode]_vars

\* Integers up to and beyond the ends of the i64 range: small ones, the
\* powers of ten from 10^10 to 10^24, 2^63 - 1, 2^63, 2^63 + 1 and 2^64, and
\* the negative of each.
PowerOfTen(k) == <<49>> \o [i \in 1..k |-> 48]
WideMagnitudes ==
    {PowerOfTen(k) : k \in 10..24}
    \cup {i64_MAX, i64_MIN,
          <<57, 50, 50, 51, 51, 55, 50, 48, 51, 54, 56, 53, 52, 55, 55, 53, 56, 48, 57>>,
          <<49, 56, 52, 52, 54, 55, 52, 52, 48, 55, 51, 55, 48, 57, 53, 53, 49, 54, 49, 54>>}
WideInts ==
    {PyInt(n) : n \in (0 - 3)..3}
    \cup {PyLong(text) : text \in WideMagnitudes}
    \cup {PyLong(<<45>> \o text) : text \in WideMagnitudes}

\* An integer is handed to serialize_value.
InitInts ==
    /\ crate = "motionstate" /\ ConstructedAccessors
    /\ \E v \in WideInts :
          probe = [stage |-> "value", value |-> v, encoded |-> Err, decoded |-> DecodeErr]

SpecInts == InitInts /\ [][NextCodec]_vars

\* A byte string and a cursor position within it are handed to
\* extract_next_slice: the encodings of the Lists above and the byte strings
\* with an over-long length prefix, at every cursor from 0 to the end.
InitSlice ==
    /\ crate = "motionstate" /\ ConstructedAccessors
    /\ \E bytes \in {serialize_value(v).bytes : v \in CodecLists} \cup Announced :
          \E cursor \in 0..Len(bytes) :
             probe = [stage |-> "value", value |-> bytes, cursor |-> cursor,
                      next |-> extract_next_slice(<<>>, 0)]

\* extract_next_slice(value, &mut cursor)
slice_extract ==
    /\ probe.stage = "value"
    /\ probe' = [probe EXCEPT !.stage = "extracted",
                              !.next = extract_next_slice(probe.value, probe.cursor)]
    /\ UNCHANGED <<crate, last_set, reads, returned, store, lock_owner, version, cache,
                   pc, call, connects, lock, attempts, answer, releases, result,
                   ok_writes, clean, commits>>

NextSlice == slice_extract
SpecSlice == InitSlice /\ [][NextSlice]_vars

\* ------------------------------------------------------- crate rustystate
\* State of crate rustystate: no lock, no version, keys used as given.
InitRusty == crate = "rustystate" /\ Constructed

\* A call of State ends: State has no version to count writes for.
rs_ended(a, op, res) ==
    /\ pc' = [pc EXCEPT ![a] = "idle"]
    /\ call' = [call EXCEPT ![a] = Over(op)]
    /\ result' = [result EXCEPT ![a] = res]
    /\ UNCHANGED <<clean, ok_writes>>

\* bulk_set's loop over the dict: key.extract::<String>()?, serialize_value()?
rs_item_ok(item) == item.key.kind = "str" /\ serialize_value(item.value).ok

\* The first item at which a `?` of the loop returns, 0 when none does.
rs_first_error(items) ==
    IF \E i \in 1..Len(items) : ~rs_item_ok(items[i])
    THEN CHOOSE i \in 1..Len(items) :
             ~rs_item_ok(items[i]) /\ \A j \in 1..(i - 1) : rs_item_ok(items[j])
    ELSE 0

\* self.cache.insert(key_str, serialized_data) for items 1..n.
RECURSIVE rs_cache_through(_, _, _)
rs_cache_through(map, items, n) ==
    IF n = 0 THEN map
    ELSE Put(rs_cache_through(map, items, n - 1),
             items[n].key.s, CachedBytes(serialize_value(items[n].value).bytes))

\* redis::pipe() with one cmd("SET").arg(key_str).arg(serialized_data) per item.
rs_pipeline(items) ==
    [i \in 1..Len(items) |->
        Command("SET", items[i].key.s, <<>>, serialize_value(items[i].value).bytes)]

\* State::set: the cache insert comes before con.set(..).unwrap().
rs_set(a, key, value) ==
    /\ pc[a] = "idle"
    /\ \E connected \in BOOLEAN, written \in BOOLEAN :
          LET data == serialize_value(value)
          IN IF ~connected
             THEN rs_ended(a, "set", "panic") /\ UNCHANGED <<cache, store>>
             ELSE IF ~data.ok
             THEN rs_ended(a, "set", "encode_error") /\ UNCHANGED <<cache, store>>
             ELSE /\ cache' = [cache EXCEPT
                                  ![a] = Put(cache[a], key, CachedBytes(data.bytes))]
                  /\ IF written
                     THEN /\ store' = Put(store, key, Entry(data.bytes, <<>>))
                          /\ rs_ended(a, "set", "ok")
                     ELSE /\ store' = store
                          /\ rs_ended(a, "set", "panic")
    /\ connects' = [connects EXCEPT ![a] = 1]
    /\ UNCHANGED <<crate, last_set, reads, returned, probe, lock_owner, version, lock, attempts, answer, releases, commits>>

\* State::bulk_set, to pipeline.query: the loop caches each item as it goes
\* and returns at the first item it cannot take.
rs_bulk_set_call(a, items) ==
    /\ pc[a] = "idle"
    /\ \E connected \in BOOLEAN :
          LET stop == rs_first_error(items)
          IN IF ~connected
             THEN rs_ended(a, "bulk_set", "panic") /\ UNCHANGED cache
             ELSE IF stop # 0
             THEN /\ cache' = [cache EXCEPT
                                  ![a] = rs_cache_through(cache[a], items, stop - 1)]
                  /\ rs_ended(a, "bulk_set", "encode_error")
             ELSE /\ cache' = [cache EXCEPT
                                  ![a] = rs_cache_through(cache[a], items, Len(items))]
                  /\ pc' = [pc EXCEPT ![a] = "query"]
                  /\ call' = [call EXCEPT ![a] = [op |-> "bulk_set", items |-> items,
                                                  from_migration |-> FALSE]]
                  /\ result' = [result EXCEPT ![a] = "none"]
                  /\ UNCHANGED <<clean, ok_writes>>
    /\ connects' = [connects EXCEPT ![a] = 1]
    /\ UNCHANGED <<crate, last_set, reads, returned, probe, store, lock_owner, version, lock, attempts, answer, releases,
                   commits>>

\* pipeline.query: the pipeline is not atomic (no MULTI/EXEC), Redis runs the
\* commands it receives one by one; when the connection breaks after `done`
\* of them the call returns "Redis bulk set error" and the cache stays.
rs_bulk_set_query(a) ==
    /\ pc[a] = "query"
    /\ \E done \in 0..Len(call[a].items) :
          /\ store' = execute(store, SubSeq(rs_pipeline(call[a].items), 1, done))
          /\ rs_ended(a, "bulk_set", IF done = Len(call[a].items) THEN "ok" ELSE "commit_error")
    /\ UNCHANGED <<crate, last_set, reads, returned, probe, connects, lock_owner, version, cache, lock, attempts, answer,
                   releases, commits>>

\* State::get: the cache, else Redis.
rs_get(a, key) ==
    /\ pc[a] = "idle"
    /\ IF key \in DOMAIN cache[a]
       THEN rs_ended(a, "get", "ok") /\ UNCHANGED <<cache, connects>>
       ELSE /\ connects' = [connects EXCEPT ![a] = 1]
            /\ \E outcome \in {"panic", "read", "read_error"} :
                  IF outcome = "read" /\ key \in DOMAIN store
                  THEN /\ cache' = [cache EXCEPT
                                       ![a] = Put(cache[a], key,
                                                  CachedBytes(store[key].bytes))]
                       /\ rs_ended(a, "get", "ok")
                  ELSE /\ cache' = cache
                       /\ rs_ended(a, "get", IF outcome = "read" THEN "key_error"
                                          ELSE outcome)
    /\ UNCHANGED <<crate, last_set, reads, returned, probe, store, lock_owner, version, lock, attempts, answer, releases,
                   commits>>

KeyB == <<98>>      \* "b"
RustyKeys == {KeyA, KeyB}
RustyValues == {V1, V2, Unpicklable}
RustyDicts ==
    Dicts({Item(PyString(KeyA), V1), Item(PyString(KeyA), V2), Item(PyString(KeyB), V1),
           Item(PyInt(1), V1), Item(PyString(KeyB), Unpicklable)})

NextRusty ==
    \E a \in {"A"} :
        \/ \E key \in RustyKeys, value \in RustyValues : rs_set(a, key, value)
        \/ \E items \in RustyDicts : rs_bulk_set_call(a, items)
        \/ rs_bulk_set_query(a)
        \/ \E key \in RustyKeys : rs_get(a, key)

SpecRusty == InitRusty /\ [][NextRusty]_vars

\* ================================================================= claims
\* The pipeline of accessor a fails in this step: the error closure has run.
CommitFails(a) ==
    /\ pc[a] = "critical"
    /\ \/ pc'[a] = "unlock_err"
       \/ pc'[a] = "idle" /\ result'[a] = "commit_error"

\* The batch of accessor a's bulk_set goes to Redis in this step.
BatchSent(a) ==
    /\ call[a].op = "bulk_set"
    /\ pc[a] \in {"critical", "query"} /\ pc'[a] # pc[a]

\* The whole batch of that bulk_set, as its crate builds it.
Batch(a) ==
    IF crate = "rustystate" THEN rs_pipeline(call[a].items)
    ELSE pipeline(crate, call[a].items, version_bump(version[a], call[a].items))

\* The pipeline of some accessor is executed by Redis in this step.
CommitSucceeds == commits' = commits + 1

\* Accessor a is inside the guarded section under a lock it acquired.
InGuardedSection(a) ==
    lock[a] = "held" /\ pc[a] \in {"critical", "unlock_ok", "unlock_err"}

\* C1: rollback exactness.  A set or bulk_set whose commit fails leaves the
\* accessor's version and its whole cache as they were before the call (the
\* call changes neither before its critical section).
C1_RollbackExact ==
    [][\A a \in Accessors :
          CommitFails(a) => cache'[a] = cache[a] /\ version'[a] = version[a]]_vars

\* C2: bulk_set is all-or-nothing in the store.  The step in which the
\* batch of a bulk_set goes to Redis either leaves the store as it was or
\* stores every item of the call (with the version write, where the crate
\* has one); no strict non-empty subset of the items is stored.
C2_AllOrNothing ==
    [][\A a \in Accessors :
          BatchSent(a) =>
              \/ store' = store
              \/ store' = execute(store, Batch(a))]_vars

\* C3: every successful commit raises the durable version counter by exactly
\* one, so none leaves it lower than it was.
C3_DurableGrowsByOne == [][CommitSucceeds => durable' = durable + 1]_vars

\* C4: between calls, an accessor with N successful write calls and no failed
\* call (and no resynchronisation) since construction has version 0 + N.
C4_VersionCountsWrites ==
    \A a \in Accessors :
        pc[a] = "idle" /\ clean[a] => version[a] = 0 + ok_writes[a]

\* C4's case: two successful writes, both bulk_sets of zero items (no data
\* key was ever written).
C4_Witness ==
    /\ pc["A"] = "idle" /\ clean["A"] /\ ok_writes["A"] = 2
    /\ DOMAIN store = {version_key}

\* C5: the durable version counter has grown (from 0) by no more than the
\* number of commits that succeeded.
C5_GrowthWithinCommits == durable - 0 <= commits

\* C5's case: both accessors have committed on the namespace.
C5_Witness ==
    /\ result["A"] = "ok" /\ result["B"] = "ok"
    /\ commits >= 2 /\ durable >= 1

\* C6: no two accessors are inside the guarded section at once.
C6_MutualExclusion ==
    \A a, b \in Accessors : a # b => ~(InGuardedSection(a) /\ InGuardedSection(b))

\* C7: a call that acquired the lock has made exactly one release attempt
\* when it is over, and no call ever makes two.
C7_ReleasedOnce ==
    \A a \in Accessors :
        /\ releases[a] <= 1
        /\ (pc[a] = "idle" /\ lock[a] = "held" => releases[a] = 1)

\* C8: at most 3 acquisition attempts; an attempt is made only without a
\* handle and, after the first, only on the answer "not acquired"; the
\* guarded section is entered from the loop only with a handle; the call
\* that ends in a lock timeout has made 3 attempts, all "not acquired",
\* holds nothing and has written nothing.
C8_BoundedAcquisition ==
    [][\A a \in Accessors :
          /\ attempts'[a] <= 3
          /\ (attempts'[a] > attempts[a] =>
                 /\ pc[a] = "lock" /\ lock[a] = "none"
                 /\ (attempts[a] > 0 => answer[a] = "Ok(None)"))
          /\ (pc[a] = "lock" /\ pc'[a] = "critical" => lock'[a] = "held")
          /\ (result'[a] = "lock_timeout" /\ result[a] # "lock_timeout" =>
                 /\ attempts'[a] = 3 /\ answer'[a] = "Ok(None)"
                 /\ pc[a] = "lock" /\ pc'[a] = "idle"
                 /\ lock'[a] = "none" /\ releases'[a] = 0
                 /\ store' = store)]_vars

\* C8's case: a call gave up after its third attempt.
C8_Witness == result["A"] = "lock_timeout" /\ attempts["A"] = 3

\* C9: an acquisition attempt answered by a Redis error ends the call with
\* that error in the same step, nothing written and no handle held, and no
\* attempt follows it.
C9_ErrorNotRetried ==
    [][\A a \in Accessors :
          /\ (attempts'[a] > attempts[a] /\ answer'[a] = "Err" =>
                 /\ pc'[a] = "idle" /\ result'[a] = "lock_error"
                 /\ lock'[a] = "none" /\ lock_owner' = lock_owner
                 /\ store' = store)
          /\ (answer[a] = "Err" => attempts'[a] <= attempts[a])]_vars

\* C9's case: the error came on the third attempt.
C9_Witness ==
    result["A"] = "lock_error" /\ attempts["A"] = 3 /\ answer["A"] = "Err"

\* C10: a bulk_set one of whose items cannot be encoded returns the encoding
\* error without a connection, without an acquisition attempt, and with store,
\* cache and version unchanged.
C10_EncodeBeforeAll ==
    [][\A a \in Accessors : \A items \in SoloDicts, from_migration \in BOOLEAN :
          /\ crate = "motionstate"
          /\ bulk_set_call(a, items, from_migration)
          /\ ~preserialize_ok(crate, items)
          =>
              /\ result'[a] = "encode_error"
              /\ connects'[a] = 0 /\ attempts'[a] = 0
              /\ store' = store /\ cache' = cache /\ version' = version]_vars

\* Accessor a takes a step of its current call.
Moves(a) == pc[a] # "idle" /\ pc'[a] # pc[a]

\* C11: a bulk_set with skip_lock = true makes no acquisition attempt and no
\* release attempt and leaves the lock's holder as it is, whether its commit
\* succeeds or fails; a bulk_set with skip_lock = false commits only after an
\* attempt of its own was answered with a handle, and a release frees the
\* lock only when this call holds it.
C11_SkipLock ==
    [][\A a \in Accessors :
          /\ (Moves(a) /\ call[a].op = "bulk_set" /\ call[a].from_migration =>
                 /\ attempts'[a] = 0 /\ releases'[a] = 0 /\ lock'[a] = "none"
                 /\ lock_owner' = lock_owner)
          /\ (Moves(a) /\ call[a].op = "bulk_set" /\ ~call[a].from_migration
                 /\ pc[a] = "critical" =>
                 lock[a] = "held" /\ attempts[a] >= 1 /\ answer[a] = "Ok(Some)")
          /\ (releases'[a] > releases[a] =>
                 /\ lock[a] = "held"
                 /\ \/ lock_owner' = lock_owner
                    \/ lock_owner = a /\ lock_owner' = "free")]_vars

\* C11's case: a bulk_set that skipped the lock has committed while the other
\* accessor holds the lock.
C11_Witness ==
    /\ call["A"].op = "bulk_set" /\ result["A"] = "ok" /\ attempts["A"] = 0
    /\ releases["A"] = 0 /\ lock_owner = "B" /\ commits >= 1

\* What a cache entry is worth to get.
Served(entry) ==
    IF entry.form = "object" THEN entry.obj ELSE deserialize_value(entry.bytes).value

\* C12: get is cache-first.  A get of a cached key returns what the cache
\* holds without a connection or a store read and leaves the cache alone; a
\* get of a key that is not cached reads that one keyname and nothing else,
\* succeeds only when the store holds it, and then has it in the cache (so
\* that the next get of the key is of the first kind).
C12_CacheFirst ==
    [][\A a \in Accessors : \A key \in ReadKeys :
          get(a, key) =>
             LET name == keyname(key)
             IN IF name \in DOMAIN cache[a]
                THEN /\ reads'[a] = {} /\ connects'[a] = 0
                     /\ result'[a] = "ok"
                     /\ returned'[a] = Served(cache[a][name])
                     /\ cache' = cache
                ELSE /\ reads'[a] \subseteq {name}
                     /\ (result'[a] = "ok" =>
                            /\ reads'[a] = {name}
                            /\ name \in DOMAIN store
                            /\ name \in DOMAIN cache'[a]
                            /\ Served(cache'[a][name]) = returned'[a]
                            /\ DOMAIN cache'[a] = DOMAIN cache[a] \cup {name})]_vars

\* C12's case: a get served from the cache after the store's entry expired.
C12_Witness ==
    /\ call["A"].op = "get" /\ result["A"] = "ok"
    /\ reads["A"] = {} /\ connects["A"] = 0
    /\ keyname(KeyA) \notin DOMAIN store
    /\ returned["A"] = V2

\* C13: a get of a key that is neither cached nor in the store never
\* succeeds, leaves cache (the key stays uncached), version and store as they
\* are, and is the only get that returns the missing-key error, which is not
\* the error of a failed read.
C13_MissingKey ==
    [][\A a \in Accessors : \A key \in ReadKeys :
          get(a, key) =>
             LET name == keyname(key)
                 missing == name \notin DOMAIN cache[a] /\ name \notin DOMAIN store
             IN /\ (missing =>
                       /\ result'[a] \in {"key_error", "read_error", "panic"}
                       /\ (result'[a] = "key_error" => reads'[a] = {name})
                       /\ returned'[a] = PyNone
                       /\ cache' = cache /\ version' = version /\ store' = store)
                /\ (result'[a] = "key_error" => missing)]_vars

\* C13's case: the missing-key error on a namespace that holds other keys.
C13_Witness ==
    /\ call["A"].op = "get" /\ result["A"] = "key_error"
    /\ keyname(KeyA) \in DOMAIN store /\ keyname(KeyP) \notin DOMAIN store
    /\ reads["A"] = {keyname(KeyP)}

\* decode tries the integer parse, then the float parse, before it falls
\* back to the string: a string that reads as a number comes back as one.
reads_as_number(crate_name, value) ==
    /\ crate_name = "motionstate" /\ value.kind = "str"
    /\ parse_i64_ok(value.s) \/ parse_f64_ok(value.s)

\* A get(k) follows a successful set(k, v) of accessor a, no call between.
GetAfterSet(a, key) ==
    /\ pc[a] = "idle" /\ call[a].op = "set" /\ result[a] = "ok"
    /\ call[a].items[1].key = PyString(key)
    /\ get(a, key)

as_decoded(crate_name, v) ==
    IF ~reads_as_number(crate_name, v) THEN v
    ELSE IF parse_i64_ok(v.s) THEN PyInt(parse_i64(v.s))
    ELSE PyFloat(parse_f64(v.s))

\* A get(k) follows a clear_cache of accessor a, k being a key whose last
\* committed write has not expired, and its store read does not fail.
GetAfterClear(a, key) ==
    /\ pc[a] = "idle" /\ call[a].op = "clear_cache"
    /\ keyname(key) \in DOMAIN last_set
    /\ get(a, key)
    /\ result'[a] \notin {"panic", "read_error"}

\* A get(k) follows a successful get(k) of accessor a that read the store.
GetAfterGet(a, key) ==
    /\ pc[a] = "idle" /\ call[a].op = "get" /\ result[a] = "ok"
    /\ reads[a] = {keyname(key)}
    /\ get(a, key)

C16_Resynchronised ==
    [][\A a \in Accessors :
          clear_cache(a) /\ result'[a] # "panic"
          => cache'[a] = EmptyMap /\ version'[a] = durable]_vars

\* The caller key of a keyname of the namespace: the keyname without its
\* leading "MOTION_STATE:c__i/".
caller_key(name) == SubSeq(name, Len(state_prefix) + 1, Len(name))

\* C17: a keys() call that succeeds returns exactly the caller keys that
\* were written by a committed set or bulk_set and whose store entry has not
\* expired, each once and with the namespace prefix stripped.
C17_KeysExact ==
    [][\A a \in Accessors :
          keys(a) /\ result'[a] = "ok"
          => LET list == returned'[a].items
             IN /\ {list[i] : i \in DOMAIN list}
                       = {PyString(caller_key(name)) : name \in DOMAIN last_set}
                /\ Len(list) = Cardinality(DOMAIN last_set)]_vars

\* C18: two distinct namespace identities derive different data keys (for
\* every pair of caller keys), different version keys and different lock
\* names.
C18_NamespacesDisjoint ==
    probe # <<>> /\ probe.first # probe.second
    => /\ probe.keynames[1] # probe.keynames[2]
       /\ probe.version_keys[1] # probe.version_keys[2]
       /\ probe.lock_names[1] # probe.lock_names[2]

\* The results that are an Err(..) handed to the caller.
ErrorResults ==
    {"open_error", "read_error", "commit_error", "lock_error", "lock_timeout",
     "encode_error", "decode_error", "key_error"}

\* C19: a call in which a store read fails reports an error to the caller:
\* a construction or a clear_cache whose read of the version counter fails
\* does not end as a success.
C19_ReadFailureReported ==
    [][\A a \in Accessors :
          new_when(a, "read_error") \/ clear_cache_when(a, "read_error")
          => result'[a] \in ErrorResults]_vars

\* C20: a construction or a clear_cache that cannot obtain a connection, and
\* a construction whose URL does not open, end with an error result, not a
\* panic.
C20_UnreachableIsError ==
    [][\A a \in Accessors :
          \/ new_when(a, "no_connection") \/ new_when(a, "open_error")
          \/ clear_cache_when(a, "no_connection")
          => /\ result'[a] \in ErrorResults
             /\ call'[a].op = "new" => pc'[a] = "unbuilt"]_vars

\* A string made of the digits of a number: an optional sign, digits, and at
\* most one point among them.
DigitString(v) ==
    /\ v.kind = "str" /\ v.s # <<>>
    /\ LET body == Unsigned(v.s)
       IN /\ \E i \in 1..Len(body) : IsDigit(body[i])
          /\ \A i \in 1..Len(body) : IsDigit(body[i]) \/ body[i] = 46
          /\ Cardinality(PointAt(body)) <= 1

\* The values of the round trip: an Integer, a Float, a List of primitives,
\* a Map from String to primitives, no digit string among them.
RoundTripValue(v) ==
    /\ v.kind \in {"int", "float", "list", "dict"}
    /\ \A i \in 1..Len(v.items) :
          v.items[i] \in Primitives \cup CodecMapKeys /\ ~DigitString(v.items[i])

\* C21: decode(encode(v)) equals v for every Integer, Float, List of
\* primitives and Map from String to primitives that holds no digit string.
C21_RoundTrip ==
    probe.stage = "decoded" /\ RoundTripValue(probe.value)
    => probe.decoded.ok /\ probe.decoded.value = probe.value

marked(bytes) == bytes # <<>> /\ bytes[1] \in {MARKER_LIST, MARKER_DICT}

LengthAt(bytes, at) ==
    IF \E i \in 4..8 : bytes[at + i] # 0 THEN 0 - 1
    ELSE bytes[at + 1] + 256 * bytes[at + 2] + 65536 * bytes[at + 3]

\* bytes, from position at + 1 on, is exactly one (length, payload) pair per
\* value, in order, the payload being the value's own encoding.
RECURSIVE Framed(_, _, _)
Framed(bytes, at, values) ==
    IF values = <<>> THEN at = Len(bytes)
    ELSE LET payload == serialize_value(Head(values)).bytes
         IN /\ at + 8 + Len(payload) <= Len(bytes)
            /\ LengthAt(bytes, at) = Len(payload)
            /\ SubSeq(bytes, at + 9, at + 8 + Len(payload)) = payload
            /\ Framed(bytes, at + 8 + Len(payload), Tail(values))

\* C23: the encoding of a List is the byte 0x01 and then one (8-byte
\* little-endian length, payload) pair per element in order; of a Map the
\* byte 0x02 and then two such pairs per entry, key then value; there is no
\* element count, and the empty List and Map are the marker byte alone and
\* decode back to the empty List and Map.
C23_Framing ==
    probe.stage # "value" /\ probe.value.kind \in {"list", "dict"}
    => LET v == probe.value
           bytes == probe.encoded.bytes
       IN /\ probe.encoded.ok
          /\ bytes[1] = (IF v.kind = "list" THEN 1 ELSE 2)
          /\ Framed(bytes, 1, v.items)
          /\ v.items = <<>> => Len(bytes) = 1
          /\ v.items = <<>> /\ probe.stage = "decoded" => probe.decoded = Decoded(v)

\* A Map of two entries has been encoded and decoded.
C23_Witness ==
    /\ probe.stage = "decoded" /\ probe.value.kind = "dict"
    /\ Len(probe.value.items) = 4 /\ Len(probe.encoded.bytes) > 33
    /\ probe.decoded = Decoded(probe.value)

\* C24: the lock is not held forever: whoever holds it, and whether or not
\* the holder ever takes another step, the lock becomes free again.
C24_LockExpires ==
    \A a \in Accessors : (lock_owner = a) ~> (lock_owner = "free")

\* A stalls in its critical section without having released, and B has
\* acquired the lock after it.
C24_Witness ==
    /\ pc["A"] = "critical" /\ lock["A"] = "held" /\ releases["A"] = 0
    /\ lock_owner = "B" /\ lock["B"] = "held" /\ pc["B"] = "critical"

\* C25: keys() leaves the accessor's cache as it was, and the in-process
\* versions, the store and the lock too, however it ends.
C25_KeysFrame ==
    [][\A a \in Accessors :
          keys(a) => /\ cache' = cache /\ version' = version
                     /\ store' = store /\ lock_owner' = lock_owner
                     /\ lock'[a] = "none" /\ attempts'[a] = 0 /\ releases'[a] = 0]_vars

\* keys() has returned a key while the cache holds an entry.
C25_Witness ==
    /\ call["A"].op = "keys" /\ result["A"] = "ok"
    /\ returned["A"].kind = "list" /\ Len(returned["A"].items) >= 1
    /\ cache["A"] # EmptyMap /\ version["A"] >= 1

\* Accessor a's pipeline goes to Redis in this step.
PipelineSent(a) == pc[a] = "critical" /\ pc'[a] # pc[a]

\* C26: the step in which the pipeline of a set or bulk_set goes to Redis
\* either leaves the store as it was, or writes every data key of the call
\* and the version counter together and nothing else; no store state holds
\* data without a version counter.
C26_AtomicBatch ==
    [][\A a \in Accessors :
          PipelineSent(a) =>
            LET written == serialized_items(crate, call[a].items)
            IN /\ \/ store' = store
                  \/ /\ \A i \in 1..Len(written) :
                           /\ written[i].keyname \in DOMAIN store'
                           /\ store'[written[i].keyname].bytes = written[i].data.bytes
                     /\ version_key \in DOMAIN store'
                     /\ store'[version_key].bytes = Digits(version'[a])
                     /\ version'[a] = version[a] + 1
                     /\ \A k \in DOMAIN store' :
                           \/ k = version_key
                           \/ \E i \in 1..Len(written) : written[i].keyname = k
                           \/ k \in DOMAIN store /\ store'[k] = store[k]
                     /\ DOMAIN store \subseteq DOMAIN store'
               /\ DOMAIN store' # {} => version_key \in DOMAIN store']_vars

\* A bulk_set of two items has committed: both data keys and the version
\* counter are in the store.
C26_Witness ==
    /\ commits = 1 /\ Cardinality(DOMAIN store) = 3 /\ version_key \in DOMAIN store
    /\ call["A"].op = "bulk_set" /\ result["A"] = "ok"

\* C27: a step of a set or bulk_set call that begins with the accessor's
\* version equal to the durable counter ends with the two equal again: a
\* commit that succeeds advances both by one, a commit that fails leaves both
\* where they were, and no other step of the call changes either.  (No other
\* accessor commits: there is none.)
C27_VersionInStep ==
    [][\A a \in Accessors :
          /\ call'[a].op \in {"set", "bulk_set"}
          /\ pc[a] # pc'[a] \/ call[a] # call'[a]
          /\ version[a] = durable
          => /\ version'[a] = durable'
             /\ IF PipelineSent(a) /\ CommitSucceeds
                THEN version'[a] = version[a] + 1
                ELSE version'[a] = version[a]]_vars

\* A commit has failed after one that succeeded: version and durable counter
\* are both 1.
C27_Witness ==
    /\ call["A"].op \in {"set", "bulk_set"} /\ result["A"] = "commit_error"
    /\ pc["A"] = "idle" /\ commits = 1 /\ version["A"] = 1 /\ durable = 1

\* C28: the batch a bulk_set sends writes item i with its i-th command: a
\* TempValue with SETEX carrying its ttl and the encoding of the value inside
\* it, any other value with a plain SET of its own encoding; the command after
\* the last item, the last of the batch, is the SET of the version key.  Once
\* Redis has executed the batch each key holds what its last command wrote.
C28_BatchShape ==
    [][\A a \in Accessors :
          BatchSent(a) /\ CommitSucceeds =>
            LET items == call[a].items
                batch == Batch(a)
                name(i) == keyname(Display(items[i].key))
            IN /\ Len(batch) = Len(items) + 1
               /\ \A i \in 1..Len(items) :
                     /\ batch[i].key = name(i)
                     /\ IF items[i].value.kind = "temp"
                        THEN /\ batch[i].cmd = "SETEX"
                             /\ batch[i].ttl = <<items[i].value.n>>
                             /\ batch[i].bytes
                                  = serialize(crate, items[i].value.items[1]).bytes
                        ELSE /\ batch[i].cmd = "SET"
                             /\ batch[i].ttl = <<>>
                             /\ batch[i].bytes = serialize(crate, items[i].value).bytes
                     /\ (\A j \in (i + 1)..Len(items) : name(j) # name(i))
                           => /\ name(i) \in DOMAIN store'
                              /\ store'[name(i)] = Entry(batch[i].bytes, batch[i].ttl)
               /\ batch[Len(batch)].cmd = "SET"
               /\ batch[Len(batch)].key = version_key
               /\ batch[Len(batch)].bytes = Digits(version[a] + 1)]_vars

\* One batch has written a plain item and a TempValue: the key of the latter
\* expires after 60 seconds and holds the encoding of the inner value.
C28_Witness ==
    /\ crate = "motionstate" /\ commits = 1 /\ call["A"].op = "bulk_set"
    /\ DOMAIN store = {keyname(Key1), keyname(KeyA), version_key}
    /\ store[keyname(Key1)] = Entry(serialize_value(V2).bytes, <<>>)
    /\ store[keyname(KeyA)] = Entry(serialize_value(V1).bytes, <<60>>)

\* The payloads of the complete leading (8-byte length, payload) pairs of
\* bytes from position at + 1 on: a pair is complete when its eight length
\* bytes and as many payload bytes as they announce are all inside bytes.
RECURSIVE LeadingPairs(_, _)
LeadingPairs(bytes, at) ==
    IF /\ at + 8 <= Len(bytes)
       /\ LengthAt(bytes, at) >= 0
       /\ at + 8 + LengthAt(bytes, at) <= Len(bytes)
    THEN <<SubSeq(bytes, at + 9, at + 8 + LengthAt(bytes, at))>>
             \o LeadingPairs(bytes, at + 8 + LengthAt(bytes, at))
    ELSE <<>>

\* The Map that key and value decodings, alternating, make.
RECURSIVE MapOf(_, _)
MapOf(values, kvs) ==
    IF Len(values) < 2 THEN kvs
    ELSE MapOf(SubSeq(values, 3, Len(values)), set_item(kvs, values[1], values[2]))

\* C29: decoding bytes that begin with 0x01 or 0x02 gives, without error, the
\* List or Map of the complete leading pairs and ignores what follows them,
\* for a Map also a last key pair without a complete value pair.  (Where the
\* payload of a complete pair does not itself decode, or a key is no
\* dictionary key, the error of that element is not held against the claim.)
C29_StopsAtTruncation ==
    probe.stage = "decoded" /\ probe.encoded.bytes[1] \in {MARKER_LIST, MARKER_DICT}
    => LET bytes == probe.encoded.bytes
           pairs == LeadingPairs(bytes, 1)
           used == IF bytes[1] = MARKER_LIST THEN Len(pairs) ELSE 2 * (Len(pairs) \div 2)
           elements == [i \in 1..used |-> deserialize_value(pairs[i])]
           values == [i \in 1..used |-> elements[i].value]
       IN (/\ \A i \in 1..used : elements[i].ok
           /\ bytes[1] = MARKER_DICT
                => \A i \in 1..used : i % 2 = 1 => hashable(values[i]))
          => probe.decoded = Decoded(IF bytes[1] = MARKER_LIST THEN PyList(values)
                                     ELSE PyDict(MapOf(values, <<>>)))

\* A set or bulk_set call of accessor a ends in this step.
CallEnds(a) ==
    /\ call'[a].op \in {"set", "bulk_set"} /\ pc'[a] = "idle"
    /\ \/ pc[a] # "idle"
       \/ result'[a] # result[a] \/ call'[a] # call[a]

\* C30: every set and bulk_set call that has begun ends, however long another
\* accessor keeps the lock, and it ends in one of three ways: success after a
\* commit, an error with no lock obtained and nothing committed by the call,
\* or an error after a failed commit.  (A call refused before the lock is
\* asked for, because a value does not encode, is counted with the second:
\* error returned, no lock, no commit.)
C30_ThreeOutcomes ==
    /\ \A a \in Accessors : (pc[a] # "idle") ~> (pc[a] = "idle")
    /\ [][\A a \in Accessors :
             CallEnds(a) =>
                /\ result'[a] \in {"ok", "lock_timeout", "lock_error", "encode_error",
                                   "commit_error"}
                /\ result'[a] \in {"lock_timeout", "lock_error", "encode_error"}
                      => store' = store /\ version' = version /\ lock_owner' # a]_vars

\* C31: items() and values() get every key the enumeration returned, in
\* turn.  A get that succeeds appends one element, for items() the pair of
\* the stripped key and the value, for values() the value, which is what the
\* cache then serves for the key; the call succeeds with the last of the
\* keys, one element per key.  A get that fails ends the call with its error
\* and without a list.
C31_ResolvedThroughGet ==
    [][\A a \in Accessors :
          /\ \A op \in {"items", "values"} :
                call'[a].op = op /\ enumerate_call(a, op) /\ result'[a] \in {"none", "ok"}
                => /\ Len(call'[a].items) = Cardinality(found_keys)
                   /\ \A name \in found_keys : \E i \in DOMAIN call'[a].items :
                         call'[a].items[i] = replace_with_empty(name, replaced_pattern)
                   /\ returned'[a] = PyList(<<>>)
                   /\ result'[a] = "ok" <=> found_keys = {}
          /\ resolve_next(a)
             => LET at == Len(returned[a].items) + 1
                    key == call[a].items[at]
                    name == keyname(key)
                IN IF name \in DOMAIN cache'[a] /\ result'[a] \in {"none", "ok"}
                   THEN LET value == Served(cache'[a][name])
                        IN /\ returned'[a].items
                                = returned[a].items
                                  \o <<IF call[a].op = "items"
                                       THEN PyTuple(<<PyString(key), value>>)
                                       ELSE value>>
                           /\ result'[a] = "ok" <=> at = Len(call[a].items)
                           /\ result'[a] = "ok" <=> pc'[a] = "idle"
                   ELSE /\ result'[a] \in ErrorResults \cup {"panic"}
                        /\ pc'[a] = "idle" /\ returned'[a] = PyNone]_vars

\* A values() has failed at the second of its two keys, whose entry expired
\* after the enumeration.
C31_Witness ==
    /\ call["A"].op = "values" /\ result["A"] = "key_error" /\ pc["A"] = "idle"
    /\ Len(call["A"].items) = 2 /\ Cardinality(reads["A"]) = 2
    /\ returned["A"] = PyNone /\ keyname(Key1) \notin DOMAIN store

\* Accessor a takes a step of a set or bulk_set call before it has the lock:
\* the call begins and goes to the acquisition loop, makes an attempt that
\* is not answered with a handle, or returns from the loop without the lock.
StepWithoutLock(a) ==
    /\ call'[a].op \in {"set", "bulk_set"}
    /\ \/ pc[a] = "idle" /\ pc'[a] = "lock"
       \/ pc[a] = "lock" /\ attempts'[a] > attempts[a] /\ pc'[a] \in {"lock", "idle"}

\* C32: no step of a set or bulk_set call that ends without the lock changes
\* the accessor's cache or version or anything in the store, data keys and
\* version counter alike, or the lock, and the call returns the lock error
\* having made no release attempt.
C32_NoLockNoEffect ==
    [][\A a \in Accessors :
          StepWithoutLock(a)
          => /\ cache'[a] = cache[a] /\ version'[a] = version[a]
             /\ store' = store /\ durable' = durable
             /\ lock_owner' = lock_owner /\ commits' = commits
             /\ releases'[a] = 0 /\ lock'[a] = "none"
             /\ pc'[a] = "idle" => result'[a] \in {"lock_timeout", "lock_error"}]_vars

\* A set has returned after its third attempt was answered "not acquired",
\* the accessor holding a cache entry and a version from an earlier commit.
C32_Witness ==
    /\ call["A"].op = "set" /\ result["A"] = "lock_timeout" /\ attempts["A"] = 3
    /\ releases["A"] = 0 /\ version["A"] = 1 /\ durable = 1
    /\ cache["A"] # EmptyMap /\ lock_owner # "free"

\* C33: between the calls of an accessor that is the only writer of its
\* namespace, for every key that is cached and whose store entry is there
\* (none of its writes has expired), what get serves from the cache equals
\* what get would decode from the store after a clear_cache.
C33_CacheServesStore ==
    \A a \in {"A"} : \A name \in DOMAIN cache[a] \cap DOMAIN store :
        pc[a] = "idle" /\ name \in DOMAIN last_set
        => LET fresh == deserialize(crate, store[name].bytes)
           IN fresh.ok /\ Served(cache[a][name]) = fresh.value

\* The keynames the write call of accessor a is about.
KeynamesOf(a) == {keyname(Display(call[a].items[i].key)) : i \in DOMAIN call[a].items}

\* C34: a cached entry goes only in a clear_cache of the accessor or in the
\* rollback of its own commit that failed on that key, and changes only in a
\* commit step of its own call that writes the key; no expiry and no write of
\* another accessor touches it.  A get of a cached key succeeds with the
\* cached value and without a store read, whatever the store then holds.
C34_CacheKeepsEntries ==
    [][\A a \in Accessors : \A name \in DOMAIN cache[a] :
          /\ name \notin DOMAIN cache'[a]
             => \/ call'[a].op = "clear_cache"
                \/ /\ pc[a] = "critical" /\ commits' = commits
                   /\ name \in KeynamesOf(a)
          /\ name \in DOMAIN cache'[a] /\ cache'[a][name] # cache[a][name]
             => pc[a] = "critical" /\ name \in KeynamesOf(a)
          /\ name = keyname(KeyA) /\ call'[a].op = "get" /\ get(a, KeyA)
             => /\ result'[a] = "ok" /\ returned'[a] = Served(cache[a][name])
                /\ reads'[a] = {} /\ cache'[a] = cache[a]]_vars

\* B has overwritten in the store the key A has cached, and a get of A has
\* still been served A's cached value, which is not what the store holds.
C34_Witness ==
    /\ call["A"].op = "get" /\ result["A"] = "ok" /\ reads["A"] = {}
    /\ keyname(KeyA) \in DOMAIN cache["A"] /\ keyname(KeyA) \in DOMAIN store
    /\ keyname(KeyA) \in DOMAIN last_set /\ result["B"] = "ok" /\ commits = 2
    /\ Served(cache["A"][keyname(KeyA)]) # deserialize(crate, store[keyname(KeyA)].bytes).value
    /\ crate = "motionstate"

\* The names a keys(), items() or values() has enumerated in this step.
Enumerated(a) ==
    IF call'[a].op = "keys"
    THEN [i \in DOMAIN returned'[a].items |-> returned'[a].items[i].s]
    ELSE call'[a].items

\* Accessor a enumerates the namespace in this step, and the KEYS succeeds.
Enumerates(a) ==
    /\ pc[a] = "idle" /\ call'[a].op \in {"keys", "items", "values"}
    /\ result'[a] \in {"none", "ok"}
    /\ keys(a) \/ \E op \in {"items", "values"} : call'[a].op = op /\ enumerate_call(a, op)

\* text holds pat somewhere.
Contains(text, pat) ==
    \E i \in 1..(Len(text) - Len(pat) + 1) : SubSeq(text, i, i + Len(pat) - 1) = pat

ReadStep(a) ==
    \/ pc[a] = "idle" /\ call'[a].op = "get" /\ get(a, KeyA)
    \/ /\ pc[a] = "idle"
       /\ \E op \in {"items", "values"} : call'[a].op = op /\ enumerate_call(a, op)
    \/ resolve_next(a)

\* C36: a step of get, items() or values(), whatever its outcome, leaves the
\* store, its version counter, the accessors' versions and the lock as they
\* are.  In the accessor's cache every entry stays as it is, and an entry
\* that is new is the store's entry of a keyname this call has read.
C36_ReadOnly ==
    [][\A a \in Accessors :
          ReadStep(a)
          => /\ store' = store /\ durable' = durable /\ version' = version
             /\ lock_owner' = lock_owner /\ lock'[a] = "none" /\ commits' = commits
             /\ \A b \in Accessors \ {a} : cache'[b] = cache[b]
             /\ \A name \in DOMAIN cache[a] :
                   name \in DOMAIN cache'[a] /\ cache'[a][name] = cache[a][name]
             /\ \A name \in DOMAIN cache'[a] \ DOMAIN cache[a] :
                   /\ name \in DOMAIN store /\ name \in reads'[a]
                   /\ cache'[a][name]
                        = IF crate = "motion"
                          THEN CachedObject(deserialize(crate, store[name].bytes).value)
                          ELSE CachedBytes(store[name].bytes)]_vars

\* A values() has read from the store the second of two keys, the first
\* being cached already.
C36_Witness ==
    /\ call["A"].op = "values" /\ result["A"] = "ok" /\ pc["A"] = "idle"
    /\ Len(returned["A"].items) = 2 /\ Cardinality(DOMAIN cache["A"]) = 2
    /\ DOMAIN cache["A"] \subseteq DOMAIN store

\* A String whose encoding begins with MARKER_LIST or MARKER_DICT.
MarkedString(v) ==
    v.kind = "str" /\ Len(v.s) > 0 /\ v.s[1] \in {MARKER_LIST, MARKER_DICT}

\* The value is such a String, or a List or Map holding one.
HoldsMarkedString(v) ==
    \/ MarkedString(v)
    \/ /\ v.kind \in {"list", "dict"}
       /\ \E i \in 1..Len(v.items) : MarkedString(v.items[i])

\* C37: a String whose encoding begins with the byte 0x01 or 0x02, stored
\* alone or as a list element or a map key or value, is decoded to the same
\* String, never to a List or Map: the value that holds it decodes to itself.
C37_StringStaysScalar ==
    probe.stage = "decoded" /\ HoldsMarkedString(probe.value)
    => /\ probe.decoded.ok
       /\ probe.decoded.value.kind = probe.value.kind
       /\ probe.decoded.value = probe.value

\* C38: extract_next_slice, for every byte string, every cursor within it
\* and every 8-byte length prefix, does not abort; it returns either none,
\* or a slice that lies inside the input right after the prefix, with the
\* cursor advanced past it and still within the input.
C38_SliceInBounds ==
    probe.stage = "extracted"
    => LET value == probe.value
           cursor == probe.cursor
           next == probe.next
       IN /\ ~next.panics
          /\ next.some
               => /\ cursor + 8 <= next.cursor /\ next.cursor <= Len(value)
                  /\ next.slice = SubSeq(value, cursor + 9, next.cursor)
                  /\ Len(next.slice)
                       = from_le_bytes(SubSeq(value, cursor + 1, cursor + 8))
          /\ ~next.some => next.slice = <<>> /\ next.cursor <= Len(value)

\* C39: an integer at or beyond the ends of the signed 64-bit range, encoded
\* and decoded, is the same Integer again, not a Float and not a String.
C39_WideRoundTrip ==
    probe.stage = "decoded" /\ probe.value.kind = "int"
    => /\ probe.decoded.ok
       /\ probe.decoded.value.kind = "int"
       /\ probe.decoded.value = probe.value

====
